---- MODULE Spec2Model ----
(***************************************************************************)
(* Model of the MPAD command parser (src/src/input_parser.py).             *)
(*                                                                         *)
(* One behaviour is one invocation of parse_input_message.  The command    *)
(* text is a sequence of whitespace-separated tokens; a regular expression *)
(* of the source is modelled by what it matches on such a sequence: the    *)
(* token classes below list, for the tokens of the vocabulary, which       *)
(* tokens each character class of the source matches.  re.sub(...).strip() *)
(* removes every match, so a removal drops every matching token (or token  *)
(* group) of the sequence.                                                 *)
(*                                                                         *)
(* The collaborators (position lookup, geocoding, airport directory) are   *)
(* outside the parser: every call has a nondeterministic outcome, chosen   *)
(* by the action that models the calling handler, and is recorded in the   *)
(* history variable calls.                                                 *)
(***************************************************************************)
EXTENDS Integers, Sequences, FiniteSets, TLC

\* Bounds of the model: the number of tokens of a command text, in the
\* specification Spec and in the specification SpecCommands.
MaxLen == 2
CommandLen == 3
WhenLen == 2
AirportLen == 4
TwoLen == 2
WxLen == 3
OsmLen == 3
DapnetLen == 4
PrettyLen == 3

\* Python's None, for the string-valued fields of the parser.
None == "<None>"

\* Python truthiness of a string-valued field ("not what", "if when").
Truthy(v) == v # None /\ v # ""

(***************************************************************************)
(* Error messages, input_parser.py lines 42-52.  A formatted message       *)
(* f"{errmsg} {callsign}" is the pair <<errmsg, callsign>>; every message  *)
(* is a sequence of its parts, and <<>> is None.                           *)
(***************************************************************************)
errmsg_cannot_find_coords_for_address == "Cannot find coordinates for requested address"
errmsg_cannot_find_coords_for_user == "Cannot find coordinates for callsign"
errmsg_invalid_country == "Invalid country code (need ISO3166-a2)"
errmsg_invalid_command == "Unknown command. See https://github.com/joergschultzelutter/mpad"
errmsg_no_satellite_specified == "No satellite specified"

NoMsg == <<>>
MsgTruthy(m) == m # <<>> /\ m # <<"">>

(***************************************************************************)
(* The command texts.  Vocab is the vocabulary of the specification Spec;  *)
(* it holds a token for every rule of the chain.                           *)
(***************************************************************************)
Vocab ==
    { "help", "imp", "tomorrow", "night", "wx", "metar", "whereis", "df1abc",
      "whereami", "satpass", "repeater", "police", "dapnet", "m8b", "posmsg",
      "x@y.zz", "icao", "eddf", "12345", "xy" }

\* The senders: one callsign with an SSID, one (a U.S. callsign) without.
Senders == { "df1jsl-1", "w1aw" }

Texts(V, n) == UNION { [1..k -> V] : k \in 0..n }

(***************************************************************************)
(* str.upper(), on the tokens the parser upper-cases.                      *)
(***************************************************************************)
Upper(t) ==
    CASE t = "10h" -> "10H"
      [] t = "10m" -> "10M"
      [] t = "11h" -> "11H"
      [] t = "12h" -> "12H"
      [] t = "13h" -> "13H"
      [] t = "14h" -> "14H"
      [] t = "15h" -> "15H"
      [] t = "16h" -> "16H"
      [] t = "17h" -> "17H"
      [] t = "18h" -> "18H"
      [] t = "19h" -> "19H"
      [] t = "1abc" -> "1ABC"
      [] t = "1abc-1" -> "1ABC-1"
      [] t = "1d" -> "1D"
      [] t = "1h" -> "1H"
      [] t = "20h" -> "20H"
      [] t = "21h" -> "21H"
      [] t = "22h" -> "22H"
      [] t = "23c" -> "23C"
      [] t = "23cm" -> "23CM"
      [] t = "23h" -> "23H"
      [] t = "24h" -> "24H"
      [] t = "25h" -> "25H"
      [] t = "26h" -> "26H"
      [] t = "27h" -> "27H"
      [] t = "28h" -> "28H"
      [] t = "29h" -> "29H"
      [] t = "2d" -> "2D"
      [] t = "2h" -> "2H"
      [] t = "2m" -> "2M"
      [] t = "30h" -> "30H"
      [] t = "31h" -> "31H"
      [] t = "32h" -> "32H"
      [] t = "33h" -> "33H"
      [] t = "34h" -> "34H"
      [] t = "35h" -> "35H"
      [] t = "36h" -> "36H"
      [] t = "37h" -> "37H"
      [] t = "38h" -> "38H"
      [] t = "39h" -> "39H"
      [] t = "3d" -> "3D"
      [] t = "3h" -> "3H"
      [] t = "40h" -> "40H"
      [] t = "41h" -> "41H"
      [] t = "42h" -> "42H"
      [] t = "43h" -> "43H"
      [] t = "44h" -> "44H"
      [] t = "45h" -> "45H"
      [] t = "46h" -> "46H"
      [] t = "47h" -> "47H"
      [] t = "4d" -> "4D"
      [] t = "4fm" -> "4FM"
      [] t = "4h" -> "4H"
      [] t = "5d" -> "5D"
      [] t = "5h" -> "5H"
      [] t = "6d" -> "6D"
      [] t = "6h" -> "6H"
      [] t = "70c" -> "70C"
      [] t = "70cm" -> "70CM"
      [] t = "7d" -> "7D"
      [] t = "7h" -> "7H"
      [] t = "8b" -> "8B"
      [] t = "8h" -> "8H"
      [] t = "9h" -> "9H"
      [] t = "@y.zz" -> "@Y.ZZ"
      [] t = "abcd" -> "ABCD"
      [] t = "abcd1" -> "ABCD1"
      [] t = "atv" -> "ATV"
      [] t = "b" -> "B"
      [] t = "c" -> "C"
      [] t = "c4fm" -> "C4FM"
      [] t = "ca" -> "CA"
      [] t = "ca;" -> "CA;"
      [] t = "current" -> "CURRENT"
      [] t = "cwop" -> "CWOP"
      [] t = "d-star" -> "D-STAR"
      [] t = "dapnet" -> "DAPNET"
      [] t = "dapnethp" -> "DAPNETHP"
      [] t = "day" -> "DAY"
      [] t = "daytime" -> "DAYTIME"
      [] t = "de" -> "DE"
      [] t = "df" -> "DF"
      [] t = "df1ab" -> "DF1AB"
      [] t = "df1abc" -> "DF1ABC"
      [] t = "df1abc-1" -> "DF1ABC-1"
      [] t = "df1jsl-1" -> "DF1JSL-1"
      [] t = "dmr" -> "DMR"
      [] t = "dstar" -> "DSTAR"
      [] t = "eddf" -> "EDDF"
      [] t = "eve" -> "EVE"
      [] t = "evening" -> "EVENING"
      [] t = "fm" -> "FM"
      [] t = "forecast" -> "FORECAST"
      [] t = "fortuneteller" -> "FORTUNETELLER"
      [] t = "fr" -> "FR"
      [] t = "fra" -> "FRA"
      [] t = "fri" -> "FRI"
      [] t = "friday" -> "FRIDAY"
      [] t = "fuel" -> "FUEL"
      [] t = "full" -> "FULL"
      [] t = "grid" -> "GRID"
      [] t = "help" -> "HELP"
      [] t = "iata" -> "IATA"
      [] t = "icao" -> "ICAO"
      [] t = "imp" -> "IMP"
      [] t = "imperial" -> "IMPERIAL"
      [] t = "info" -> "INFO"
      [] t = "iss" -> "ISS"
      [] t = "jo" -> "JO"
      [] t = "jo41" -> "JO41"
      [] t = "lang" -> "LANG"
      [] t = "lng" -> "LNG"
      [] t = "m" -> "M"
      [] t = "m8" -> "M8"
      [] t = "m8b" -> "M8B"
      [] t = "magic8" -> "MAGIC8"
      [] t = "magic8ball" -> "MAGIC8BALL"
      [] t = "metar" -> "METAR"
      [] t = "metric" -> "METRIC"
      [] t = "mh" -> "MH"
      [] t = "mon" -> "MON"
      [] t = "monday" -> "MONDAY"
      [] t = "morn" -> "MORN"
      [] t = "morning" -> "MORNING"
      [] t = "mtr" -> "MTR"
      [] t = "night" -> "NIGHT"
      [] t = "nite" -> "NITE"
      [] t = "noon" -> "NOON"
      [] t = "now" -> "NOW"
      [] t = "osm" -> "OSM"
      [] t = "paris" -> "PARIS"
      [] t = "paris," -> "PARIS,"
      [] t = "paris;" -> "PARIS;"
      [] t = "police" -> "POLICE"
      [] t = "posmsg" -> "POSMSG"
      [] t = "posrpt" -> "POSRPT"
      [] t = "repeater" -> "REPEATER"
      [] t = "riseset" -> "RISESET"
      [] t = "sat" -> "SAT"
      [] t = "satfreq" -> "SATFREQ"
      [] t = "satpass" -> "SATPASS"
      [] t = "saturday" -> "SATURDAY"
      [] t = "sonde" -> "SONDE"
      [] t = "sun" -> "SUN"
      [] t = "sunday" -> "SUNDAY"
      [] t = "taf" -> "TAF"
      [] t = "tetra" -> "TETRA"
      [] t = "thu" -> "THU"
      [] t = "thursday" -> "THURSDAY"
      [] t = "today" -> "TODAY"
      [] t = "tomorrow" -> "TOMORROW"
      [] t = "tonight" -> "TONIGHT"
      [] t = "tonite" -> "TONITE"
      [] t = "top" -> "TOP"
      [] t = "top2" -> "TOP2"
      [] t = "top3" -> "TOP3"
      [] t = "top4" -> "TOP4"
      [] t = "top5" -> "TOP5"
      [] t = "tue" -> "TUE"
      [] t = "tuesday" -> "TUESDAY"
      [] t = "unicode" -> "UNICODE"
      [] t = "us" -> "US"
      [] t = "view" -> "VIEW"
      [] t = "view," -> "VIEW,"
      [] t = "vispass" -> "VISPASS"
      [] t = "w1aw" -> "W1AW"
      [] t = "wed" -> "WED"
      [] t = "wednesday" -> "WEDNESDAY"
      [] t = "whereami" -> "WHEREAMI"
      [] t = "whereis" -> "WHEREIS"
      [] t = "wx" -> "WX"
      [] t = "x" -> "X"
      [] t = "x@y.zz" -> "X@Y.ZZ"
      [] t = "xy" -> "XY"
      [] t = "ysf" -> "YSF"
      [] t = "zip" -> "ZIP"
      [] OTHER -> t

(***************************************************************************)
(* The words inside a token.  A token of letters and digits is one word;   *)
(* the e-mail address of the vocabulary starts with the word "x".          *)
(***************************************************************************)
WordHead(t) ==
    CASE t = "x@y.zz" -> "x"
      [] t = "paris;" -> "paris"
      [] t = "paris," -> "paris"
      [] t = "view,"  -> "view"
      [] t = "ca;"    -> "ca"
      [] t = "12345;" -> "12345"
      [] t = "df1abc-1" -> "df1abc"
      [] t = "51.8/8.3" -> "51"
      [] t = "1.2.3/4" -> "1"
      [] t \in { "@y.zz", ";", ",", "-1", ".8/8.3", ".2.3/4" } -> None
      [] OTHER        -> t

\* The text before the separator of a token.
Stem(t) ==
    CASE t \in { "paris;", "paris," } -> "paris"
      [] t = "view,"  -> "view"
      [] t = "ca;"    -> "ca"
      [] t = "12345;" -> "12345"
      [] OTHER        -> t

WordRest(t) ==
    CASE t = "x@y.zz" -> <<"@y.zz">>
      [] t \in { "paris;", "ca;", "12345;" } -> <<";">>
      [] t \in { "paris,", "view," } -> <<",">>
      [] t = "df1abc-1" -> <<"-1">>
      [] t = "51.8/8.3" -> <<".8/8.3">>
      [] t = "1.2.3/4" -> <<".2.3/4">>
      [] OTHER        -> <<>>

(***************************************************************************)
(* Token-level regular expression matching.                                *)
(***************************************************************************)
\* re.search(r"\b(w1|w2)\b", text): some token is one of the words.
HasTok(m, S) == \E i \in DOMAIN m : m[i] \in S

\* The first match of re.search / re.findall(...)[0].
FirstTok(m, S) ==
    m[CHOOSE i \in DOMAIN m : m[i] \in S /\ \A j \in 1..(i - 1) : m[j] \notin S]

\* re.sub(r"\b(w1|w2)\b", "", text).strip(): every such token is removed.
SubToks(m, S) == SelectSeq(m, LAMBDA t : t \notin S)

\* A keyword token followed by an argument: r"\b(k1|k2)\s*(ARG)\b".  The
\* argument is the next token, or the word that the next token starts with.
ArgOf(t, A) == IF t \in A THEN t ELSE WordHead(t)
PairAt(m, K, A, i) ==
    i + 1 <= Len(m) /\ m[i] \in K /\ ArgOf(m[i + 1], A) \in A
HasPair(m, K, A) == \E i \in DOMAIN m : PairAt(m, K, A, i)
FirstPair(m, K, A) ==
    CHOOSE i \in DOMAIN m :
        PairAt(m, K, A, i) /\ \A j \in 1..(i - 1) : ~PairAt(m, K, A, j)

\* re.sub of a keyword-argument pattern: the matches are found from left to
\* right and do not overlap.
RECURSIVE SubPairs(_, _, _)
SubPairs(m, K, A) ==
    IF m = <<>> THEN <<>>
    ELSE IF PairAt(m, K, A, 1)
         THEN (IF m[2] \in A THEN <<>> ELSE WordRest(m[2])) \o SubPairs(SubSeq(m, 3, Len(m)), K, A)
    ELSE <<m[1]>> \o SubPairs(Tail(m), K, A)

(***************************************************************************)
(* The state of one invocation of parse_input_message.                     *)
(*   pc                   the next step of the function                    *)
(*   aprs_message         the remaining command text                       *)
(*   users_callsign       the sender                                       *)
(*   found_my_duty_roster the claim flag                                   *)
(*   err                  the error flag                                   *)
(*   found_when, found_when_daytime                                        *)
(*   rp                   the fields that end in response_parameters       *)
(*   success              the returned success flag                        *)
(* History variables (they record the run and are never read by it):       *)
(*   msg_in    the command text as sent                                    *)
(*   calls     the collaborator calls made so far, with their outcomes     *)
(*   invoked   the rule handlers invoked so far                            *)
(*   claimers  the rules that have set the claim flag                      *)
(*   errors    the steps that have set the error flag                      *)
(***************************************************************************)
VARIABLES pc, aprs_message, users_callsign, found_my_duty_roster, err,
          found_when, found_when_daytime, rp, success,
          msg_in, calls, invoked, claimers, errors, other

vars == <<pc, aprs_message, users_callsign, found_my_duty_roster, err,
          found_when, found_when_daytime, rp, success,
          msg_in, calls, invoked, claimers, errors, other>>

\* The rule chain in the order of the source, lines 171-508.
RuleOrder ==
    << "help", "callsign_multi", "whereami", "cwop_id", "satpass", "repeater",
       "osm_category", "dapnet", "fortuneteller", "email_position_report",
       "metar", "wx" >>

\* The steps of parse_input_message in program order.
Steps ==
    << "units", "unicode", "language", "number_of_results", "help", "when",
       "when_daytime", "callsign_multi", "whereami", "cwop_id", "satpass",
       "repeater", "osm_category", "dapnet", "fortuneteller",
       "email_position_report", "metar", "wx", "validate", "backfill",
       "sender_lookup", "return", "done" >>

\* The step after p had the repeater rule and the OSM rule changed places.
StepAfterSwapped(p) ==
    CASE p = "satpass"      -> "osm_category"
      [] p = "osm_category" -> "repeater"
      [] p = "repeater"     -> "dapnet"
      [] OTHER -> Steps[(CHOOSE i \in DOMAIN Steps : Steps[i] = p) + 1]

StepAfter(p) == Steps[(CHOOSE i \in DOMAIN Steps : Steps[i] = p) + 1]

(***************************************************************************)
(* get_units_based_on_users_callsign, lines 2598-2643: U.S. callsigns, and *)
(* the Liberia and Myanmar prefixes, default to imperial units.            *)
(***************************************************************************)
get_units_based_on_users_callsign(cs) ==
    IF cs \in { "W1AW" } THEN "imperial" ELSE "metric"

\* The initial values of the local variables, lines 82-119.
InitialFields ==
    [ units |-> "metric", language |-> "en", number_of_results |-> 1,
      force_outgoing_unicode_messages |-> FALSE,
      latitude |-> "0.0", longitude |-> "0.0",
      users_latitude |-> "0.0", users_longitude |-> "0.0",
      date_offset |-> -1, hour_offset |-> -1,
      when |-> None, when_daytime |-> None, what |-> None,
      city |-> NoMsg, state |-> None, country_code |-> None,
      zipcode |-> NoMsg, county |-> None,
      cwop_id |-> None, icao |-> None, human_readable_message |-> NoMsg,
      satellite |-> None, repeater_band |-> None, repeater_mode |-> None,
      osm_special_phrase |-> None, dapnet_message |-> NoMsg,
      mail_recipient |-> None, message_callsign |-> None ]

\* An invocation that is not there.
NoParse == [ pc |-> "none" ]

\* T is the set of the command texts, O the set of the states of a second
\* invocation.
InitWith(T, O) ==
    /\ msg_in \in T
    /\ users_callsign \in Senders
    /\ aprs_message = msg_in
    /\ pc = "units"
    /\ found_my_duty_roster = FALSE
    /\ err = FALSE
    /\ found_when = FALSE
    /\ found_when_daytime = FALSE
    /\ rp = InitialFields
    /\ success = FALSE
    /\ calls = <<>>
    /\ invoked = <<>>
    /\ claimers = <<>>
    /\ errors = <<>>
    /\ other \in O

Init == InitWith(Texts(Vocab, MaxLen), {NoParse})

(***************************************************************************)
(* The modifier extractors, lines 2646-2816, and their use, lines 125-166. *)
(***************************************************************************)
MetricWords == { "mtr", "metric" }
ImperialWords == { "imp", "imperial" }

parse_keyword_units(m) ==
    LET m1 == IF HasTok(m, MetricWords) THEN SubToks(m, MetricWords) ELSE m
        imp == HasTok(m1, ImperialWords)
    IN  [ found_my_keyword |-> HasTok(m, MetricWords) \/ imp,
          units |-> IF imp THEN "imperial" ELSE "metric",
          aprs_message |-> IF imp THEN SubToks(m1, ImperialWords) ELSE m1 ]

Units ==
    /\ pc = "units"
    /\ pc' = StepAfter(pc)
    /\ users_callsign' = Upper(users_callsign)
    /\ LET r == parse_keyword_units(aprs_message)
       IN  IF r.found_my_keyword
           THEN /\ aprs_message' = r.aprs_message
                /\ rp' = [rp EXCEPT !.units = r.units]
           ELSE /\ aprs_message' = aprs_message
                /\ rp' = [rp EXCEPT !.units =
                       get_units_based_on_users_callsign(Upper(users_callsign))]
    /\ UNCHANGED <<found_my_duty_roster, err, found_when, found_when_daytime,
                   success, msg_in, calls, invoked, claimers, errors, other>>

parse_keyword_unicode(m) ==
    [ found_my_keyword |-> HasTok(m, { "unicode" }),
      force_outgoing_unicode_messages |-> HasTok(m, { "unicode" }),
      aprs_message |-> SubToks(m, { "unicode" }) ]

Unicode ==
    /\ pc = "unicode"
    /\ pc' = StepAfter(pc)
    /\ LET r == parse_keyword_unicode(aprs_message)
       IN  IF r.found_my_keyword
           THEN /\ aprs_message' = r.aprs_message
                /\ rp' = [rp EXCEPT !.force_outgoing_unicode_messages =
                                        r.force_outgoing_unicode_messages]
           ELSE UNCHANGED <<aprs_message, rp>>
    /\ UNCHANGED <<users_callsign, found_my_duty_roster, err, found_when,
                   found_when_daytime, success, msg_in, calls, invoked,
                   claimers, errors, other>>

\* r"\b(lang|lng)\s*([a-zA-Z]{2})\b"
LanguageWords == { "lang", "lng" }
TwoLetters ==
    { "ca", "de", "df", "fm", "fr", "jo", "mh", "us", "wx", "xy" }

parse_keyword_language(m) ==
    LET hit == HasPair(m, LanguageWords, TwoLetters)
    IN  [ found_my_keyword |-> hit,
          language |-> IF hit
                       THEN ArgOf(m[FirstPair(m, LanguageWords, TwoLetters) + 1],
                                  TwoLetters)
                       ELSE "en",
          aprs_message |-> IF hit THEN SubPairs(m, LanguageWords, TwoLetters)
                           ELSE m ]

Language ==
    /\ pc = "language"
    /\ pc' = StepAfter(pc)
    /\ LET r == parse_keyword_language(aprs_message)
       IN  IF r.found_my_keyword
           THEN /\ aprs_message' = r.aprs_message
                /\ rp' = [rp EXCEPT !.language = r.language]
           ELSE UNCHANGED <<aprs_message, rp>>
    /\ UNCHANGED <<users_callsign, found_my_duty_roster, err, found_when,
                   found_when_daytime, success, msg_in, calls, invoked,
                   claimers, errors, other>>

\* r"\btop(2|3|4|5)\b"
TopWords == { "top2", "top3", "top4", "top5" }

parse_keyword_number_of_results(m) ==
    [ found_my_keyword |-> HasTok(m, TopWords),
      number_of_results |-> IF HasTok(m, TopWords)
                            THEN CASE FirstTok(m, TopWords) = "top2" -> 2
                                   [] FirstTok(m, TopWords) = "top3" -> 3
                                   [] FirstTok(m, TopWords) = "top4" -> 4
                                   [] FirstTok(m, TopWords) = "top5" -> 5
                            ELSE 1,
      aprs_message |-> SubToks(m, TopWords) ]

\* The extractor had its match counted as a claim.
NumberOfResultsClaims ==
    /\ pc = "number_of_results"
    /\ pc' = StepAfter(pc)
    /\ LET r == parse_keyword_number_of_results(aprs_message)
       IN  IF r.found_my_keyword
           THEN /\ aprs_message' = r.aprs_message
                /\ rp' = [rp EXCEPT !.number_of_results = r.number_of_results]
                /\ found_my_duty_roster' = TRUE
                /\ claimers' = Append(claimers, "number_of_results")
           ELSE UNCHANGED <<aprs_message, rp, found_my_duty_roster, claimers>>
    /\ UNCHANGED <<users_callsign, err, found_when, found_when_daytime,
                   success, msg_in, calls, invoked, errors, other>>

NumberOfResults ==
    /\ pc = "number_of_results"
    /\ pc' = StepAfter(pc)
    /\ LET r == parse_keyword_number_of_results(aprs_message)
       IN  IF r.found_my_keyword
           THEN /\ aprs_message' = r.aprs_message
                /\ rp' = [rp EXCEPT !.number_of_results = r.number_of_results]
           ELSE UNCHANGED <<aprs_message, rp>>
    /\ UNCHANGED <<users_callsign, found_my_duty_roster, err, found_when,
                   found_when_daytime, success, msg_in, calls, invoked,
                   claimers, errors, other>>

\* The guard had it left out the claim flag, and had it left out the error
\* flag.
ChainOpenIgnoringClaim(found, error) == ~error
ChainOpenIgnoringError(found, error) == ~found

(***************************************************************************)
(* The guard of every rule of the chain: "if not found_my_duty_roster and  *)
(* not err".                                                               *)
(***************************************************************************)
ChainOpen(found, error) == ~found /\ ~error

(***************************************************************************)
(* The help rule, lines 171-177: r"^(info|help)$" on the whole text.       *)
(***************************************************************************)
\* The pattern had no anchors: the word anywhere in the text.
HelpMatchesAnywhere(m) == HasTok(m, { "info", "help" })

HelpMatches(m) == Len(m) = 1 /\ m[1] \in { "info", "help" }

Help ==
    /\ pc = "help"
    /\ pc' = StepAfter(pc)
    /\ IF ChainOpen(found_my_duty_roster, err)
       THEN /\ invoked' = Append(invoked, "help")
            /\ IF HelpMatches(aprs_message) /\ ~Truthy(rp.what)
               THEN /\ rp' = [rp EXCEPT !.what = "help"]
                    /\ found_my_duty_roster' = TRUE
                    /\ claimers' = Append(claimers, "help")
               ELSE UNCHANGED <<rp, found_my_duty_roster, claimers>>
       ELSE UNCHANGED <<invoked, rp, found_my_duty_roster, claimers>>
    /\ UNCHANGED <<aprs_message, users_callsign, err, found_when,
                   found_when_daytime, success, msg_in, calls, errors, other>>

(***************************************************************************)
(* utility_modules.getdaysuntil: the days from today's weekday to the      *)
(* requested weekday (0 = Monday), 7 when both are the same day.           *)
(***************************************************************************)
\* The days until the weekday, the same day counted as no day.
getdaysuntilSameDayZero(theweekday, today) == (theweekday - today) % 7

getdaysuntil(theweekday, today) ==
    IF (theweekday - today) % 7 # 0 THEN (theweekday - today) % 7 ELSE 7

(***************************************************************************)
(* parse_when, lines 731-923.  The patterns are tried in this order; the   *)
(* first one that matches decides, and every match of that pattern is      *)
(* removed.                                                                *)
(***************************************************************************)
DayTokens == << "1d", "2d", "3d", "4d", "5d", "6d", "7d" >>
HourTokens ==
    << "1h", "2h", "3h", "4h", "5h", "6h", "7h", "8h", "9h", "10h",
       "11h", "12h", "13h", "14h", "15h", "16h", "17h", "18h", "19h",
       "20h", "21h", "22h", "23h", "24h", "25h", "26h", "27h", "28h",
       "29h", "30h", "31h", "32h", "33h", "34h", "35h", "36h", "37h",
       "38h", "39h", "40h", "41h", "42h", "43h", "44h", "45h", "46h",
       "47h" >>

Range(f) == { f[i] : i \in DOMAIN f }
IndexOf(f, t) == CHOOSE i \in DOMAIN f : f[i] = t

WhenPatterns(today) ==
    << [ words |-> { "tonite", "tonight" }, when |-> "today", date_offset |-> 0 ],
       [ words |-> { "today" }, when |-> "today", date_offset |-> 0 ],
       [ words |-> { "tomorrow" }, when |-> "tomorrow", date_offset |-> 1 ],
       [ words |-> { "monday", "mon" }, when |-> "monday",
         date_offset |-> getdaysuntil(0, today) ],
       [ words |-> { "tuesday", "tue" }, when |-> "tuesday",
         date_offset |-> getdaysuntil(1, today) ],
       [ words |-> { "wednesday", "wed" }, when |-> "wednesday",
         date_offset |-> getdaysuntil(2, today) ],
       [ words |-> { "thursday", "thu" }, when |-> "thursday",
         date_offset |-> getdaysuntil(3, today) ],
       [ words |-> { "friday", "fri" }, when |-> "friday",
         date_offset |-> getdaysuntil(4, today) ],
       [ words |-> { "saturday", "sat" }, when |-> "saturday",
         date_offset |-> getdaysuntil(5, today) ],
       [ words |-> { "sunday", "sun" }, when |-> "sunday",
         date_offset |-> getdaysuntil(6, today) ],
       [ words |-> { "current", "now" }, when |-> "now", date_offset |-> 0 ] >>

\* The hours of an hourly forecast had they been stored as a day offset.
parse_when_hours_as_days(m, today) ==
    LET P == WhenPatterns(today)
        hits == { i \in DOMAIN P : HasTok(m, P[i].words) }
    IN  IF hits # {}
        THEN LET i == CHOOSE k \in hits : \A j \in hits : k <= j
             IN  [ aprs_message |-> SubToks(m, P[i].words), found_when |-> TRUE,
                   when |-> P[i].when, date_offset |-> P[i].date_offset,
                   hour_offset |-> -1 ]
        ELSE IF HasTok(m, Range(DayTokens))
        THEN [ aprs_message |-> SubToks(m, Range(DayTokens)), found_when |-> TRUE,
               when |-> FirstTok(m, Range(DayTokens)),
               date_offset |-> IndexOf(DayTokens, FirstTok(m, Range(DayTokens))),
               hour_offset |-> -1 ]
        ELSE IF HasTok(m, Range(HourTokens))
        THEN [ aprs_message |-> SubToks(m, Range(HourTokens)), found_when |-> TRUE,
               when |-> "hour",
               date_offset |-> IndexOf(HourTokens, FirstTok(m, Range(HourTokens))),
               hour_offset |-> -1 ]
        ELSE [ aprs_message |-> m, found_when |-> FALSE, when |-> None,
               date_offset |-> -1, hour_offset |-> -1 ]

parse_when(m, today) ==
    LET P == WhenPatterns(today)
        hits == { i \in DOMAIN P : HasTok(m, P[i].words) }
    IN  IF hits # {}
        THEN LET i == CHOOSE k \in hits : \A j \in hits : k <= j
             IN  [ aprs_message |-> SubToks(m, P[i].words), found_when |-> TRUE,
                   when |-> P[i].when, date_offset |-> P[i].date_offset,
                   hour_offset |-> -1 ]
        ELSE IF HasTok(m, Range(DayTokens))
        THEN [ aprs_message |-> SubToks(m, Range(DayTokens)), found_when |-> TRUE,
               when |-> FirstTok(m, Range(DayTokens)),
               date_offset |-> IndexOf(DayTokens, FirstTok(m, Range(DayTokens))),
               hour_offset |-> -1 ]
        ELSE IF HasTok(m, Range(HourTokens))
        THEN [ aprs_message |-> SubToks(m, Range(HourTokens)), found_when |-> TRUE,
               when |-> "hour", date_offset |-> -1,
               hour_offset |-> IndexOf(HourTokens, FirstTok(m, Range(HourTokens))) ]
        ELSE [ aprs_message |-> m, found_when |-> FALSE, when |-> None,
               date_offset |-> -1, hour_offset |-> -1 ]

WeekdayWords ==
    { "monday", "mon", "tuesday", "tue", "wednesday", "wed", "thursday", "thu",
      "friday", "fri", "saturday", "sat", "sunday", "sun" }

\* The extractor had the text it was called with replaced by the original
\* command text.
ParseWhenRestoresText ==
    /\ pc = "when"
    /\ pc' = StepAfter(pc)
    /\ IF ~found_when /\ ~err /\ ~found_my_duty_roster
       THEN \E today \in (IF HasTok(aprs_message, WeekdayWords) THEN 0..6 ELSE {0}) :
              LET r == parse_when(aprs_message, today)
              IN  /\ found_when' = r.found_when
                  /\ rp' = [rp EXCEPT !.when = r.when,
                                      !.date_offset = r.date_offset,
                                      !.hour_offset = r.hour_offset]
                  /\ aprs_message' = IF r.found_when THEN msg_in
                                     ELSE aprs_message
       ELSE UNCHANGED <<found_when, rp, aprs_message>>
    /\ UNCHANGED <<users_callsign, found_my_duty_roster, err,
                   found_when_daytime, success, msg_in, calls, invoked,
                   claimers, errors, other>>

\* today: the weekday of the system date, as far as the text depends on it.
ParseWhen ==
    /\ pc = "when"
    /\ pc' = StepAfter(pc)
    /\ IF ~found_when /\ ~err /\ ~found_my_duty_roster
       THEN \E today \in (IF HasTok(aprs_message, WeekdayWords) THEN 0..6 ELSE {0}) :
              LET r == parse_when(aprs_message, today)
              IN  /\ found_when' = r.found_when
                  /\ rp' = [rp EXCEPT !.when = r.when,
                                      !.date_offset = r.date_offset,
                                      !.hour_offset = r.hour_offset]
                  /\ aprs_message' = IF r.found_when THEN r.aprs_message
                                     ELSE aprs_message
       ELSE UNCHANGED <<found_when, rp, aprs_message>>
    /\ UNCHANGED <<users_callsign, found_my_duty_roster, err,
                   found_when_daytime, success, msg_in, calls, invoked,
                   claimers, errors, other>>

(***************************************************************************)
(* parse_when_daytime, lines 926-1003, with the day-time names of          *)
(* mpad_config.                                                            *)
(***************************************************************************)
mpad_config ==
    [ mpad_str_morning |-> "morning",
      mpad_str_daytime |-> "daytime",
      mpad_str_evening |-> "evening",
      mpad_str_night   |-> "night",
      osm_supported_keyword_categories |-> << "fuel", "police" >> ]

WhenDaytimePatterns ==
    << [ words |-> { "full" }, when_daytime |-> "full" ],
       [ words |-> { "morn", "morning" }, when_daytime |-> mpad_config.mpad_str_morning ],
       [ words |-> { "day", "daytime", "noon" }, when_daytime |-> mpad_config.mpad_str_daytime ],
       [ words |-> { "eve", "evening" }, when_daytime |-> mpad_config.mpad_str_evening ],
       [ words |-> { "tonight", "tonite", "nite", "night" },
         when_daytime |-> mpad_config.mpad_str_night ] >>

parse_when_daytime(m) ==
    LET P == WhenDaytimePatterns
        hits == { i \in DOMAIN P : HasTok(m, P[i].words) }
    IN  IF hits # {}
        THEN LET i == CHOOSE k \in hits : \A j \in hits : k <= j
             IN  [ aprs_message |-> SubToks(m, P[i].words),
                   found_when_daytime |-> TRUE,
                   when_daytime |-> P[i].when_daytime ]
        ELSE [ aprs_message |-> m, found_when_daytime |-> FALSE,
               when_daytime |-> None ]

ParseWhenDaytime ==
    /\ pc = "when_daytime"
    /\ pc' = StepAfter(pc)
    /\ IF ~found_when_daytime /\ ~err /\ ~found_my_duty_roster
       THEN LET r == parse_when_daytime(aprs_message)
            IN  /\ found_when_daytime' = r.found_when_daytime
                /\ rp' = [rp EXCEPT !.when_daytime = r.when_daytime]
                /\ aprs_message' = IF r.found_when_daytime THEN r.aprs_message
                                   ELSE aprs_message
       ELSE UNCHANGED <<found_when_daytime, rp, aprs_message>>
    /\ UNCHANGED <<users_callsign, found_my_duty_roster, err, found_when,
                   success, msg_in, calls, invoked, claimers, errors, other>>

(***************************************************************************)
(* The collaborators.  Each one is a function of its argument and of the   *)
(* outcome of the call (ok), which the calling action chooses.  A position *)
(* is named by what it is the position of ("DF1ABC", "EDDF", ...); "0.0"   *)
(* is the value 0.0 that the parser starts with and that a failed call     *)
(* returns.                                                                *)
(***************************************************************************)
NoPosition == "0.0"

\* ResolvePosition(identifier)
get_position_on_aprsfi(aprsfi_callsign, ok) ==
    IF ok
    THEN [ success |-> TRUE, latitude |-> aprsfi_callsign,
           longitude |-> aprsfi_callsign, message_callsign |-> aprsfi_callsign ]
    ELSE [ success |-> FALSE, latitude |-> NoPosition, longitude |-> NoPosition,
           message_callsign |-> None ]

\* ReverseGeocode(lat, lon, language)
NoAddress ==
    [ city |-> NoMsg, state |-> None, country_code |-> None, zipcode |-> NoMsg,
      county |-> None ]

get_reverse_geopy_data(latitude, ok) ==
    IF ok
    THEN [ success |-> TRUE,
           response_data |-> [NoAddress EXCEPT !.city = <<"City">>,
                                               !.country_code = "DE"] ]
    ELSE [ success |-> FALSE, response_data |-> NoAddress ]

\* NearestAirportIcao(lat, lon)
get_nearest_icao(latitude, ok) == IF ok THEN "EDDF" ELSE None

\* ValidateAirport by ICAO code
validate_icao(icao_code, ok, metar_capable) ==
    IF ok
    THEN [ success |-> TRUE, latitude |-> Upper(icao_code),
           longitude |-> Upper(icao_code), metar_capable |-> metar_capable,
           icao |-> Upper(icao_code) ]
    ELSE [ success |-> FALSE, latitude |-> NoPosition, longitude |-> NoPosition,
           metar_capable |-> FALSE, icao |-> None ]

\* One entry of the history variable calls.
Call(fn, arg, ok) == [ fn |-> fn, arg |-> arg, ok |-> ok ]

(***************************************************************************)
(* The outcomes of the collaborator calls of one handler: s[k] is the      *)
(* outcome of the k-th outcome the handler asks for.  A handler that asks  *)
(* for fewer than n outcomes runs once, with the rest of s FALSE.          *)
(***************************************************************************)
Scripts(n) == [1..n -> BOOLEAN]

Canonical(s, used) == \A k \in DOMAIN s : k > used => ~s[k]

(***************************************************************************)
(* parse_what_keyword_callsign_multi, lines 2191-2427.                     *)
(***************************************************************************)
CsmKeywords ==
    { "wx", "forecast", "whereis", "riseset", "cwop", "metar", "taf", "sonde" }

\* [a-zA-Z0-9]{1,3}[0-9][a-zA-Z0-9]{0,3}-[a-zA-Z0-9]{1,2}
CallsignsWithSsid == { "df1abc-1", "df1jsl-1", "DF1JSL-1" }

\* [a-zA-Z0-9]{1,3}[0-9][a-zA-Z0-9]{0,3}
CallsignsNoSsid ==
    { "10h", "10m", "11h", "12345", "12h", "13h", "14h", "15h", "16h",
      "17h", "18h", "19h", "20h", "21h", "22h", "23c", "23cm", "23h", "24h",
      "25h", "26h", "27h", "28h", "29h", "30h", "31h", "32h", "33h", "34h",
      "35h", "36h", "37h", "38h", "39h", "40h", "41", "41h", "42h", "43h",
      "44h", "45h", "46h", "47h", "51", "70c", "70cm", "c4fm", "df1ab",
      "df1abc", "jo41", "m8", "m8b", "top2", "top3", "top4", "top5", "w1aw",
      "W1AW", "DF1JSL" }

\* keyword, then a word: r"\b(wx|...)\s*(\w+)\b"
KwWordAt(m, i) ==
    i + 1 <= Len(m) /\ m[i] \in CsmKeywords /\ WordHead(m[i + 1]) # None

RECURSIVE SubKwWord(_)
SubKwWord(m) ==
    IF m = <<>> THEN <<>>
    ELSE IF KwWordAt(m, 1)
         THEN WordRest(m[2]) \o SubKwWord(SubSeq(m, 3, Len(m)))
         ELSE <<m[1]>> \o SubKwWord(Tail(m))

\* The four patterns of the handler, tried in this order.
CsmMatch(m, users_cs) ==
    IF HasPair(m, CsmKeywords, CallsignsWithSsid)
    THEN LET i == FirstPair(m, CsmKeywords, CallsignsWithSsid)
         IN  [ found |-> TRUE, what |-> m[i],
               message_callsign |-> Upper(ArgOf(m[i + 1], CallsignsWithSsid)),
               aprs_message |-> SubPairs(m, CsmKeywords, CallsignsWithSsid) ]
    ELSE IF HasPair(m, CsmKeywords, CallsignsNoSsid)
    THEN LET i == FirstPair(m, CsmKeywords, CallsignsNoSsid)
         IN  [ found |-> TRUE, what |-> m[i],
               message_callsign |-> Upper(ArgOf(m[i + 1], CallsignsNoSsid)),
               aprs_message |-> SubPairs(m, CsmKeywords, CallsignsNoSsid) ]
    ELSE IF \E i \in DOMAIN m : KwWordAt(m, i)
    THEN LET i == CHOOSE k \in DOMAIN m :
                      KwWordAt(m, k) /\ \A j \in 1..(k - 1) : ~KwWordAt(m, j)
         IN  [ found |-> TRUE, what |-> m[i],
               message_callsign |-> Upper(WordHead(m[i + 1])),
               aprs_message |-> SubKwWord(m) ]
    ELSE IF HasTok(m, CsmKeywords)
    THEN [ found |-> TRUE, what |-> FirstTok(m, CsmKeywords),
           message_callsign |-> users_cs,
           aprs_message |-> SubToks(m, CsmKeywords) ]
    ELSE [ found |-> FALSE, what |-> None, message_callsign |-> None,
           aprs_message |-> m ]

\* What the handler returns when its pattern has not matched.
CsmNoFields ==
    [ latitude |-> NoPosition, longitude |-> NoPosition,
      users_latitude |-> NoPosition, users_longitude |-> NoPosition,
      what |-> None, human_readable_message |-> NoMsg,
      message_callsign |-> None, city |-> NoMsg, state |-> None,
      county |-> None, country_code |-> None, zipcode |-> NoMsg, icao |-> None ]

parse_what_keyword_callsign_multi(m, users_cs, s) ==
    LET k == CsmMatch(m, users_cs)
        pos == get_position_on_aprsfi(k.message_callsign, s[1])
        c1 == Call("get_position_on_aprsfi", k.message_callsign, s[1])
        base == [CsmNoFields EXCEPT !.what = k.what,
                                    !.latitude = pos.latitude,
                                    !.longitude = pos.longitude,
                                    !.message_callsign = pos.message_callsign]
        Ret(found, error, f, cl, n) ==
            [ found_my_keyword |-> found, kw_err |-> error, fields |-> f,
              aprs_message |-> k.aprs_message, calls |-> cl, used |-> n ]
    IN  IF ~k.found THEN Ret(FALSE, FALSE, CsmNoFields, <<>>, 0)
        ELSE IF ~pos.success
        THEN Ret(TRUE, TRUE,
                 [base EXCEPT !.human_readable_message =
                     <<errmsg_cannot_find_coords_for_user, pos.message_callsign>>],
                 <<c1>>, 1)
        ELSE IF k.what \in { "wx", "forecast" }
        THEN Ret(TRUE, FALSE,
                 [base EXCEPT !.what = "wx",
                              !.human_readable_message = <<"Wx", pos.message_callsign>>],
                 <<c1>>, 1)
        ELSE IF k.what = "riseset"
        THEN Ret(TRUE, FALSE,
                 [base EXCEPT !.human_readable_message =
                                  <<"RiseSet", pos.message_callsign>>],
                 <<c1>>, 1)
        ELSE IF k.what = "sonde"
        THEN LET own == get_position_on_aprsfi(users_cs, s[2])
             IN  Ret(TRUE, FALSE,
                     [base EXCEPT !.human_readable_message =
                                      <<"Landing Pred.", pos.message_callsign>>,
                                  !.users_latitude = own.latitude,
                                  !.users_longitude = own.longitude],
                     <<c1, Call("get_position_on_aprsfi", users_cs, s[2])>>, 2)
        ELSE IF k.what = "whereis"
        THEN LET rev == get_reverse_geopy_data(pos.latitude, s[2])
                 own == get_position_on_aprsfi(users_cs, s[3])
             IN  Ret(TRUE, FALSE,
                     [base EXCEPT !.human_readable_message =
                                      <<"Pos", pos.message_callsign>>,
                                  !.city = rev.response_data.city,
                                  !.state = rev.response_data.state,
                                  !.country_code = rev.response_data.country_code,
                                  !.zipcode = rev.response_data.zipcode,
                                  !.county = rev.response_data.county,
                                  !.users_latitude = own.latitude,
                                  !.users_longitude = own.longitude],
                     <<c1, Call("get_reverse_geopy_data", pos.latitude, s[2]),
                       Call("get_position_on_aprsfi", users_cs, s[3])>>, 3)
        ELSE IF k.what = "cwop"
        THEN Ret(TRUE, FALSE,
                 [base EXCEPT !.what = "cwop_by_latlon",
                              !.human_readable_message =
                                  <<"CWOP for", pos.message_callsign>>],
                 <<c1>>, 1)
        ELSE \* metar, taf
             LET near == get_nearest_icao(pos.latitude, s[2])
                 c2 == Call("get_nearest_icao", pos.latitude, s[2])
                 val == validate_icao(near, s[3], s[4])
                 c3 == Call("validate_icao", near, s[3])
             IN  IF near = None THEN Ret(TRUE, FALSE, base, <<c1, c2>>, 2)
                 ELSE IF ~val.success
                 THEN Ret(TRUE, FALSE,
                          [base EXCEPT !.latitude = val.latitude,
                                       !.longitude = val.longitude,
                                       !.icao = None],
                          <<c1, c2, c3>>, 3)
                 ELSE IF val.metar_capable
                 THEN Ret(TRUE, FALSE,
                          [base EXCEPT !.latitude = val.latitude,
                                       !.longitude = val.longitude,
                                       !.icao = val.icao,
                                       !.human_readable_message =
                                           <<Upper(k.what), "for", val.icao>>],
                          <<c1, c2, c3>>, 4)
                 ELSE Ret(TRUE, FALSE,
                          [base EXCEPT !.latitude = val.latitude,
                                       !.longitude = val.longitude,
                                       !.what = "wx", !.icao = None,
                                       !.human_readable_message =
                                           <<"Wx", "for", None>>],
                          <<c1, c2, c3>>, 4)

(***************************************************************************)
(* One rule of the chain in parse_input_message: the handler is invoked    *)
(* when no rule has claimed the text and no error has occurred; when it    *)
(* reports a match or an error, its flags, its fields and its text are     *)
(* taken over.  H(s) is the handler's result under the outcomes s of its   *)
(* collaborator calls, n the most outcomes it can ask for.                 *)
(***************************************************************************)
Merge(r, f) == [ x \in DOMAIN r |-> IF x \in DOMAIN f THEN f[x] ELSE r[x] ]

TagCalls(cl, name) ==
    [ i \in DOMAIN cl |->
        [ fn |-> cl[i].fn, arg |-> cl[i].arg, ok |-> cl[i].ok, by |-> name ] ]

\* A handler's error had not been taken over when the handler also reported
\* a match.
RuleStepClaimOverridesError(name, H) ==
    /\ pc = name
    /\ pc' = StepAfter(name)
    /\ IF ChainOpen(found_my_duty_roster, err)
       THEN \E s \in DOMAIN H :
              LET r == H[s]
              IN  /\ Canonical(s, r.used)
                  /\ invoked' = Append(invoked, name)
                  /\ calls' = calls \o TagCalls(r.calls, name)
                  /\ IF r.found_my_keyword \/ r.kw_err
                     THEN /\ found_my_duty_roster' = r.found_my_keyword
                          /\ err' = (r.kw_err /\ ~r.found_my_keyword)
                          /\ rp' = Merge(rp, r.fields)
                          /\ aprs_message' = r.aprs_message
                          /\ claimers' = IF r.found_my_keyword
                                         THEN Append(claimers, name) ELSE claimers
                          /\ errors' = IF r.kw_err
                                       THEN Append(errors, name) ELSE errors
                     ELSE UNCHANGED <<found_my_duty_roster, err, rp,
                                      aprs_message, claimers, errors>>
       ELSE UNCHANGED <<invoked, calls, found_my_duty_roster, err, rp,
                        aprs_message, claimers, errors>>
    /\ UNCHANGED <<users_callsign, found_when, found_when_daytime, success,
                   msg_in, other>>

RuleStep(name, H) ==
    /\ pc = name
    /\ pc' = StepAfter(name)
    /\ IF ChainOpen(found_my_duty_roster, err)
       THEN \E s \in DOMAIN H :
              LET r == H[s]
              IN  /\ Canonical(s, r.used)
                  /\ invoked' = Append(invoked, name)
                  /\ calls' = calls \o TagCalls(r.calls, name)
                  /\ IF r.found_my_keyword \/ r.kw_err
                     THEN /\ found_my_duty_roster' = r.found_my_keyword
                          /\ err' = r.kw_err
                          /\ rp' = Merge(rp, r.fields)
                          /\ aprs_message' = r.aprs_message
                          /\ claimers' = IF r.found_my_keyword
                                         THEN Append(claimers, name) ELSE claimers
                          /\ errors' = IF r.kw_err
                                       THEN Append(errors, name) ELSE errors
                     ELSE UNCHANGED <<found_my_duty_roster, err, rp,
                                      aprs_message, claimers, errors>>
       ELSE UNCHANGED <<invoked, calls, found_my_duty_roster, err, rp,
                        aprs_message, claimers, errors>>
    /\ UNCHANGED <<users_callsign, found_when, found_when_daytime, success,
                   msg_in, other>>

\* The rule had a failed lookup of the target's position counted as a miss.
CallsignMultiLookupMiss ==
    RuleStep("callsign_multi",
             [ s \in Scripts(4) |->
                 LET r == parse_what_keyword_callsign_multi(aprs_message,
                                                            users_callsign, s)
                 IN  IF r.kw_err
                     THEN [r EXCEPT !.found_my_keyword = FALSE, !.kw_err = FALSE]
                     ELSE r ])

CallsignMulti ==
    RuleStep("callsign_multi",
             [ s \in Scripts(4) |->
                 parse_what_keyword_callsign_multi(aprs_message, users_callsign, s) ])

(***************************************************************************)
(* parse_what_keyword_whereami, lines 2430-2549.                           *)
(***************************************************************************)
parse_what_keyword_whereami(m, users_cs, s) ==
    LET pos == get_position_on_aprsfi(users_cs, s[1])
        c1 == Call("get_position_on_aprsfi", users_cs, s[1])
        rev == get_reverse_geopy_data(pos.latitude, s[2])
        none == [ latitude |-> NoPosition, longitude |-> NoPosition,
                  users_latitude |-> NoPosition, users_longitude |-> NoPosition,
                  what |-> None, human_readable_message |-> NoMsg,
                  message_callsign |-> None, city |-> NoMsg, state |-> None,
                  county |-> None, country_code |-> None, zipcode |-> NoMsg ]
        base == [none EXCEPT !.what = "whereis",
                             !.latitude = pos.latitude,
                             !.longitude = pos.longitude,
                             !.message_callsign = pos.message_callsign]
    IN  IF ~HasTok(m, { "whereami" })
        THEN [ found_my_keyword |-> FALSE, kw_err |-> FALSE, fields |-> none,
               aprs_message |-> m, calls |-> <<>>, used |-> 0 ]
        ELSE IF ~pos.success
        THEN [ found_my_keyword |-> TRUE, kw_err |-> TRUE,
               fields |-> [base EXCEPT !.human_readable_message =
                   <<errmsg_cannot_find_coords_for_user, pos.message_callsign>>],
               aprs_message |-> SubToks(m, { "whereami" }),
               calls |-> <<c1>>, used |-> 1 ]
        ELSE [ found_my_keyword |-> TRUE, kw_err |-> FALSE,
               fields |-> [base EXCEPT !.human_readable_message =
                                           <<"Pos for", users_cs>>,
                                       !.city = rev.response_data.city,
                                       !.state = rev.response_data.state,
                                       !.country_code = rev.response_data.country_code,
                                       !.zipcode = rev.response_data.zipcode,
                                       !.county = rev.response_data.county,
                                       !.users_latitude = pos.latitude,
                                       !.users_longitude = pos.longitude],
               aprs_message |-> SubToks(m, { "whereami" }),
               calls |-> <<c1, Call("get_reverse_geopy_data", pos.latitude, s[2])>>,
               used |-> 2 ]

\* The rule had a failed reverse geocoding counted as an error.
WhereamiAddressRequired ==
    RuleStep("whereami",
             [ s \in Scripts(2) |->
                 LET r == parse_what_keyword_whereami(aprs_message,
                                                      users_callsign, s)
                 IN  IF Len(r.calls) = 2 /\ ~r.calls[2].ok
                     THEN [r EXCEPT !.kw_err = TRUE]
                     ELSE r ])

Whereami ==
    RuleStep("whereami",
             [ s \in Scripts(2) |->
                 parse_what_keyword_whereami(aprs_message, users_callsign, s) ])

(***************************************************************************)
(* parse_what_keyword_cwop_id, lines 2139-2188: r"\bcwop\s*(\w+)\b".       *)
(***************************************************************************)
CwopAt(m, i) == i + 1 <= Len(m) /\ m[i] \in { "cwop" } /\ WordHead(m[i + 1]) # None

RECURSIVE SubCwop(_)
SubCwop(m) ==
    IF m = <<>> THEN <<>>
    ELSE IF CwopAt(m, 1) THEN WordRest(m[2]) \o SubCwop(SubSeq(m, 3, Len(m)))
    ELSE <<m[1]>> \o SubCwop(Tail(m))

parse_what_keyword_cwop_id(m, users_cs, s) ==
    IF \E i \in DOMAIN m : CwopAt(m, i)
    THEN LET i == CHOOSE k \in DOMAIN m :
                      CwopAt(m, k) /\ \A j \in 1..(k - 1) : ~CwopAt(m, j)
             cwop_id == Upper(WordHead(m[i + 1]))
         IN  [ found_my_keyword |-> TRUE, kw_err |-> FALSE,
               fields |-> [ what |-> "cwop_by_cwop_id",
                            message_callsign |-> users_cs,
                            cwop_id |-> cwop_id,
                            human_readable_message |-> <<"CWOP for", cwop_id>> ],
               aprs_message |-> SubCwop(m), calls |-> <<>>, used |-> 0 ]
    ELSE [ found_my_keyword |-> FALSE, kw_err |-> FALSE,
           fields |-> [ what |-> None, message_callsign |-> users_cs,
                        cwop_id |-> None, human_readable_message |-> NoMsg ],
           aprs_message |-> m, calls |-> <<>>, used |-> 0 ]

CwopId ==
    RuleStep("cwop_id",
             [ s \in Scripts(0) |->
                 parse_what_keyword_cwop_id(aprs_message, users_callsign, s) ])

(***************************************************************************)
(* parse_what_keyword_satpass, lines 1983-2072: one of the keywords        *)
(* vispass, satpass, satfreq; the satellite is the token after the         *)
(* keyword, and the empty string when there is none.                       *)
(***************************************************************************)
SatWords == { "vispass", "satpass", "satfreq" }

\* (\w*(\S*))\b: the token after the keyword up to its last word character,
\* and what the pattern leaves of that token.
SatRest(t) ==
    IF t \in { ",", ";" } THEN <<t>>
    ELSE IF Stem(t) # t THEN WordRest(t) ELSE <<>>

RECURSIVE SubSat(_)
SubSat(m) ==
    IF m = <<>> THEN <<>>
    ELSE IF m[1] \in SatWords
         THEN (IF Len(m) >= 2 THEN SatRest(m[2]) ELSE <<>>)
              \o SubSat(SubSeq(m, 3, Len(m)))
    ELSE <<m[1]>> \o SubSat(Tail(m))

parse_what_keyword_satpass(m, users_cs, s) ==
    LET none == [ what |-> None, latitude |-> NoPosition, longitude |-> NoPosition,
                  message_callsign |-> None, satellite |-> None,
                  human_readable_message |-> NoMsg ]
    IN  IF ~HasTok(m, SatWords)
        THEN [ found_my_keyword |-> FALSE, kw_err |-> FALSE, fields |-> none,
               aprs_message |-> m, calls |-> <<>>, used |-> 0 ]
        ELSE
        LET i == CHOOSE k \in DOMAIN m :
                     m[k] \in SatWords /\ \A j \in 1..(k - 1) : m[j] \notin SatWords
            satellite == IF i + 1 <= Len(m) /\ m[i + 1] \notin { ",", ";" }
                         THEN Upper(Stem(m[i + 1])) ELSE ""
            pos == get_position_on_aprsfi(users_cs, s[1])
            c1 == Call("get_position_on_aprsfi", users_cs, s[1])
        IN  IF satellite = ""
            THEN [ found_my_keyword |-> FALSE, kw_err |-> TRUE,
                   fields |-> [none EXCEPT !.satellite = "",
                       !.human_readable_message = <<errmsg_no_satellite_specified>>],
                   aprs_message |-> m, calls |-> <<>>, used |-> 0 ]
            ELSE IF ~pos.success
            THEN [ found_my_keyword |-> FALSE, kw_err |-> TRUE,
                   fields |-> [none EXCEPT !.satellite = satellite,
                       !.latitude = pos.latitude, !.longitude = pos.longitude,
                       !.message_callsign = pos.message_callsign,
                       !.human_readable_message =
                           <<errmsg_cannot_find_coords_for_user, users_cs>>],
                   aprs_message |-> m, calls |-> <<c1>>, used |-> 1 ]
            ELSE [ found_my_keyword |-> TRUE, kw_err |-> FALSE,
                   fields |-> [none EXCEPT !.satellite = satellite,
                       !.what = m[i],
                       !.latitude = pos.latitude, !.longitude = pos.longitude,
                       !.message_callsign = pos.message_callsign,
                       !.human_readable_message =
                           <<IF m[i] = "satfreq" THEN "SatFreq for"
                             ELSE "SatPass for", satellite>>],
                   aprs_message |-> SubSat(m), calls |-> <<c1>>, used |-> 1 ]

Satpass ==
    RuleStep("satpass",
             [ s \in Scripts(1) |->
                 parse_what_keyword_satpass(aprs_message, users_callsign, s) ])

(***************************************************************************)
(* A pattern of consecutive tokens: P[j] is the set of tokens that the     *)
(* j-th part of the pattern matches.                                       *)
(***************************************************************************)
MatchAt(m, P, i) ==
    i + Len(P) - 1 <= Len(m) /\ \A j \in DOMAIN P : m[i + j - 1] \in P[j]

HasPat(m, P) == \E i \in DOMAIN m : MatchAt(m, P, i)

FirstPat(m, P) ==
    CHOOSE i \in DOMAIN m :
        MatchAt(m, P, i) /\ \A j \in 1..(i - 1) : ~MatchAt(m, P, j)

RECURSIVE SubPat(_, _)
SubPat(m, P) ==
    IF m = <<>> THEN <<>>
    ELSE IF MatchAt(m, P, 1) THEN SubPat(SubSeq(m, Len(P) + 1, Len(m)), P)
    ELSE <<m[1]>> \o SubPat(Tail(m), P)

(***************************************************************************)
(* parse_what_keyword_repeater, lines 1006-1140.                           *)
(***************************************************************************)
RepeaterWords == { "repeater" }
RepeaterModes == { "fm", "dstar", "d-star", "dmr", "c4fm", "ysf", "tetra", "atv" }
\* \d.?\d*(?:cm|m)
RepeaterBands == { "70cm", "2m", "23cm", "10m" }

\* The patterns had the mode-only tier tried first and no tier with a band.
RepeaterMatchModeFirst(m) ==
    LET P3 == << RepeaterWords, RepeaterModes >>
        P5 == << RepeaterWords >>
    IN  IF HasPat(m, P3)
        THEN [ found |-> TRUE, repeater_mode |-> Upper(m[FirstPat(m, P3) + 1]),
               repeater_band |-> None, aprs_message |-> SubPat(m, P3) ]
        ELSE IF HasPat(m, P5)
        THEN [ found |-> TRUE, repeater_mode |-> None, repeater_band |-> None,
               aprs_message |-> SubPat(m, P5) ]
        ELSE [ found |-> FALSE, repeater_mode |-> None, repeater_band |-> None,
               aprs_message |-> m ]

RepeaterMatch(m) ==
    LET P1 == << RepeaterWords, RepeaterModes, RepeaterBands >>
        P2 == << RepeaterWords, RepeaterBands, RepeaterModes >>
        P3 == << RepeaterWords, RepeaterModes >>
        P4 == << RepeaterWords, RepeaterBands >>
        P5 == << RepeaterWords >>
    IN  IF HasPat(m, P1)
        THEN [ found |-> TRUE, repeater_mode |-> Upper(m[FirstPat(m, P1) + 1]),
               repeater_band |-> m[FirstPat(m, P1) + 2],
               aprs_message |-> SubPat(m, P1) ]
        ELSE IF HasPat(m, P2)
        THEN [ found |-> TRUE, repeater_mode |-> Upper(m[FirstPat(m, P2) + 2]),
               repeater_band |-> m[FirstPat(m, P2) + 1],
               aprs_message |-> SubPat(m, P2) ]
        ELSE IF HasPat(m, P3)
        THEN [ found |-> TRUE, repeater_mode |-> Upper(m[FirstPat(m, P3) + 1]),
               repeater_band |-> None, aprs_message |-> SubPat(m, P3) ]
        ELSE IF HasPat(m, P4)
        THEN [ found |-> TRUE, repeater_mode |-> None,
               repeater_band |-> m[FirstPat(m, P4) + 1],
               aprs_message |-> SubPat(m, P4) ]
        ELSE IF HasPat(m, P5)
        THEN [ found |-> TRUE, repeater_mode |-> None, repeater_band |-> None,
               aprs_message |-> SubPat(m, P5) ]
        ELSE [ found |-> FALSE, repeater_mode |-> None, repeater_band |-> None,
               aprs_message |-> m ]

parse_what_keyword_repeater(m, users_cs, s) ==
    LET k == RepeaterMatch(m)
        pos == get_position_on_aprsfi(users_cs, s[1])
        none == [ what |-> None, latitude |-> NoPosition, longitude |-> NoPosition,
                  message_callsign |-> users_cs, repeater_band |-> None,
                  repeater_mode |-> None, human_readable_message |-> NoMsg ]
        text == <<"Repeater">>
                \o (IF Truthy(k.repeater_band) THEN <<k.repeater_band>> ELSE <<>>)
                \o (IF Truthy(k.repeater_mode) THEN <<k.repeater_mode>> ELSE <<>>)
    IN  IF ~k.found
        THEN [ found_my_keyword |-> FALSE, kw_err |-> FALSE, fields |-> none,
               aprs_message |-> m, calls |-> <<>>, used |-> 0 ]
        ELSE [ found_my_keyword |-> TRUE, kw_err |-> ~pos.success,
               fields |-> [ what |-> "repeater", latitude |-> pos.latitude,
                            longitude |-> pos.longitude,
                            message_callsign |-> pos.message_callsign,
                            repeater_band |-> k.repeater_band,
                            repeater_mode |-> k.repeater_mode,
                            human_readable_message |->
                                IF pos.success THEN text
                                ELSE <<errmsg_cannot_find_coords_for_user,
                                       pos.message_callsign>> ],
               aprs_message |-> k.aprs_message,
               calls |-> <<Call("get_position_on_aprsfi", users_cs, s[1])>>,
               used |-> 1 ]

Repeater ==
    RuleStep("repeater",
             [ s \in Scripts(1) |->
                 parse_what_keyword_repeater(aprs_message, users_callsign, s) ])

(***************************************************************************)
(* parse_what_keyword_osm_category, lines 1889-1980.  The categories of    *)
(* mpad_config are tried in their order; for each one "osm <category>" is  *)
(* tried before the bare category.                                         *)
(***************************************************************************)
\* The handler had the last category of the list that matches been taken.
parse_what_keyword_osm_category_last_match(m, users_cs, s) ==
    LET C == mpad_config.osm_supported_keyword_categories
        hits == { i \in DOMAIN C : HasTok(m, { C[i] }) }
        none == [ latitude |-> NoPosition, longitude |-> NoPosition,
                  what |-> None, human_readable_message |-> NoMsg,
                  message_callsign |-> None, osm_special_phrase |-> None ]
    IN  IF hits = {}
        THEN [ found_my_keyword |-> FALSE, kw_err |-> FALSE, fields |-> none,
               aprs_message |-> m, calls |-> <<>>, used |-> 0 ]
        ELSE
        LET c == C[CHOOSE i \in hits : \A j \in hits : i >= j]
            P == << { "osm" }, {c} >>
            pos == get_position_on_aprsfi(users_cs, s[1])
        IN  [ found_my_keyword |-> TRUE, kw_err |-> ~pos.success,
              fields |-> [ latitude |-> pos.latitude, longitude |-> pos.longitude,
                           what |-> "osm_special_phrase",
                           human_readable_message |->
                               IF pos.success THEN NoMsg
                               ELSE <<errmsg_cannot_find_coords_for_user,
                                      pos.message_callsign>>,
                           message_callsign |-> pos.message_callsign,
                           osm_special_phrase |-> c ],
              aprs_message |-> IF HasPat(m, P) THEN SubPat(m, P)
                               ELSE SubToks(m, {c}),
              calls |-> <<Call("get_position_on_aprsfi", users_cs, s[1])>>,
              used |-> 1 ]

parse_what_keyword_osm_category(m, users_cs, s) ==
    LET C == mpad_config.osm_supported_keyword_categories
        hits == { i \in DOMAIN C : HasTok(m, { C[i] }) }
        none == [ latitude |-> NoPosition, longitude |-> NoPosition,
                  what |-> None, human_readable_message |-> NoMsg,
                  message_callsign |-> None, osm_special_phrase |-> None ]
    IN  IF hits = {}
        THEN [ found_my_keyword |-> FALSE, kw_err |-> FALSE, fields |-> none,
               aprs_message |-> m, calls |-> <<>>, used |-> 0 ]
        ELSE
        LET c == C[CHOOSE i \in hits : \A j \in hits : i <= j]
            P == << { "osm" }, {c} >>
            pos == get_position_on_aprsfi(users_cs, s[1])
        IN  [ found_my_keyword |-> TRUE, kw_err |-> ~pos.success,
              fields |-> [ latitude |-> pos.latitude, longitude |-> pos.longitude,
                           what |-> "osm_special_phrase",
                           human_readable_message |->
                               IF pos.success THEN NoMsg
                               ELSE <<errmsg_cannot_find_coords_for_user,
                                      pos.message_callsign>>,
                           message_callsign |-> pos.message_callsign,
                           osm_special_phrase |-> c ],
              aprs_message |-> IF HasPat(m, P) THEN SubPat(m, P)
                               ELSE SubToks(m, {c}),
              calls |-> <<Call("get_position_on_aprsfi", users_cs, s[1])>>,
              used |-> 1 ]

OsmCategory ==
    RuleStep("osm_category",
             [ s \in Scripts(1) |->
                 parse_what_keyword_osm_category(aprs_message, users_callsign, s) ])

(***************************************************************************)
(* parse_what_keyword_fortuneteller, lines 2819-2854.                      *)
(***************************************************************************)
FortuneWords == { "fortuneteller", "magic8ball", "magic8", "m8b" }

parse_what_keyword_fortuneteller(m, s) ==
    IF HasTok(m, FortuneWords)
    THEN [ found_my_keyword |-> TRUE, kw_err |-> FALSE,
           fields |-> [ what |-> "fortuneteller" ],
           aprs_message |-> SubToks(m, FortuneWords), calls |-> <<>>, used |-> 0 ]
    ELSE [ found_my_keyword |-> FALSE, kw_err |-> FALSE,
           fields |-> [ what |-> None ],
           aprs_message |-> m, calls |-> <<>>, used |-> 0 ]

Fortuneteller ==
    RuleStep("fortuneteller",
             [ s \in Scripts(0) |->
                 parse_what_keyword_fortuneteller(aprs_message, s) ])

(***************************************************************************)
(* parse_what_keyword_email_position_report, lines 2857-2987: the keyword, *)
(* then an e-mail address that ends the text.                              *)
(***************************************************************************)
EmailAt(m, i) ==
    /\ i >= 1 /\ i + 1 = Len(m)
    /\ m[i] \in { "posmsg", "posrpt" }
    /\ m[i + 1] \in { "x@y.zz" }

parse_what_keyword_email_position_report(m, users_cs, s) ==
    LET pos == get_position_on_aprsfi(users_cs, s[1])
        c1 == Call("get_position_on_aprsfi", users_cs, s[1])
        rev == get_reverse_geopy_data(pos.latitude, s[2])
        none == [ what |-> None, human_readable_message |-> NoMsg,
                  mail_recipient |-> None,
                  latitude |-> NoPosition, longitude |-> NoPosition,
                  users_latitude |-> NoPosition, users_longitude |-> NoPosition,
                  message_callsign |-> None, city |-> NoMsg, state |-> None,
                  county |-> None, country_code |-> None, zipcode |-> NoMsg ]
        base == [none EXCEPT !.what = "email_position_report",
                             !.mail_recipient = m[Len(m)],
                             !.latitude = pos.latitude,
                             !.longitude = pos.longitude,
                             !.message_callsign = pos.message_callsign]
    IN  IF ~EmailAt(m, Len(m) - 1)
        THEN [ found_my_keyword |-> FALSE, kw_err |-> FALSE, fields |-> none,
               aprs_message |-> m, calls |-> <<>>, used |-> 0 ]
        ELSE IF ~pos.success
        THEN [ found_my_keyword |-> TRUE, kw_err |-> TRUE,
               fields |-> [base EXCEPT !.human_readable_message =
                   <<errmsg_cannot_find_coords_for_user, pos.message_callsign>>],
               aprs_message |-> SubSeq(m, 1, Len(m) - 2),
               calls |-> <<c1>>, used |-> 1 ]
        ELSE [ found_my_keyword |-> TRUE, kw_err |-> FALSE,
               fields |-> [base EXCEPT !.human_readable_message =
                                           <<"Email position for", users_cs>>,
                                       !.city = rev.response_data.city,
                                       !.state = rev.response_data.state,
                                       !.country_code = rev.response_data.country_code,
                                       !.zipcode = rev.response_data.zipcode,
                                       !.county = rev.response_data.county,
                                       !.users_latitude = pos.latitude,
                                       !.users_longitude = pos.longitude],
               aprs_message |-> SubSeq(m, 1, Len(m) - 2),
               calls |-> <<c1, Call("get_reverse_geopy_data", pos.latitude, s[2])>>,
               used |-> 2 ]

EmailPositionReport ==
    RuleStep("email_position_report",
             [ s \in Scripts(2) |->
                 parse_what_keyword_email_position_report(aprs_message, users_callsign, s) ])

(***************************************************************************)
(* parse_what_keyword_dapnet, lines 2075-2136: the keyword, a callsign,    *)
(* and a message body [\D\s]+, which is every character up to the first    *)
(* digit.  No word boundary separates the callsign from the body: when the *)
(* callsign ends the text, its last character becomes the body.            *)
(***************************************************************************)
\* The characters of a token before its first digit, and the rest of it.
LeadingDigitTokens ==
    { "12345", "12345;", "70cm", "2m", "23cm", "10m", "8b", "1abc",
      "51.8/8.3", "1.2.3/4" } \cup Range(DayTokens) \cup Range(HourTokens)

NonDigitHead(t) ==
    CASE t = "df1abc"   -> "df"
      [] t = "df1abc-1" -> "df"
      [] t = "m8b"      -> "m"
      [] t = "c4fm"     -> "c"
      [] t = "jo41"     -> "jo"
      [] t = "abcd1"    -> "abcd"
      [] t = "-1"       -> "-"
      [] t \in { ".8/8.3", ".2.3/4" } -> "."
      [] t \in TopWords -> "top"
      [] t \in LeadingDigitTokens -> ""
      [] OTHER          -> t

DigitTail(t) ==
    CASE t = "df1abc"   -> "1abc"
      [] t = "df1abc-1" -> "1abc-1"
      [] t = "m8b"      -> "8b"
      [] t = "c4fm"     -> "4fm"
      [] t = "jo41"     -> "41"
      [] t = "abcd1"    -> "1"
      [] t = "-1"       -> "1"
      [] t = ".8/8.3"   -> "8/8.3"
      [] t = ".2.3/4"   -> "2.3/4"
      [] t = "top2"     -> "2"
      [] t = "top3"     -> "3"
      [] t = "top4"     -> "4"
      [] t = "top5"     -> "5"
      [] t \in LeadingDigitTokens -> t
      [] OTHER          -> ""

DigitFree(t) == DigitTail(t) = ""

\* A callsign that ends the text: the callsign and the body it splits into.
DapnetSplits(ssid) ==
    IF ssid THEN {}
    ELSE { <<"df1abc", "df1ab", "c", "">>, <<"m8b", "m8", "b", "">>,
           <<"70cm", "70c", "m", "">>, <<"23cm", "23c", "m", "">>,
           <<"df1abc-1", "df1abc", "-", "1">>, <<"12345;", "12345", ";", "">> }

DapnetCallsigns(ssid) == IF ssid THEN CallsignsWithSsid ELSE CallsignsNoSsid

\* The body that starts with the tokens R: the words of the body, and the
\* text after it.
RECURSIVE DapnetBody(_)
DapnetBody(R) ==
    IF R = <<>> THEN [ body |-> <<>>, rest |-> <<>> ]
    ELSE IF DigitTail(R[1]) = ""
         THEN LET b == DapnetBody(Tail(R))
              IN  [ body |-> <<R[1]>> \o b.body, rest |-> b.rest ]
         ELSE [ body |-> IF NonDigitHead(R[1]) = "" THEN <<>>
                         ELSE <<NonDigitHead(R[1])>>,
                rest |-> <<DigitTail(R[1])>> \o Tail(R) ]

\* The match of the pattern that starts at token i, if there is one.
DapnetAt(m, ssid, i) ==
    /\ i + 1 <= Len(m)
    /\ m[i] \in { "dapnet", "dapnethp" }
    /\ IF i + 1 < Len(m) THEN Stem(m[i + 1]) \in DapnetCallsigns(ssid)
       ELSE \E x \in DapnetSplits(ssid) : x[1] = m[i + 1]

DapnetMatchAt(m, ssid, i) ==
    IF i + 1 < Len(m)
    THEN LET b == DapnetBody(SubSeq(m, i + 2, Len(m)))
             p == IF Stem(m[i + 1]) # m[i + 1] THEN WordRest(m[i + 1]) ELSE <<>>
         IN  [ what |-> m[i], message_callsign |-> Upper(Stem(m[i + 1])),
               dapnet_message |-> IF p \o b.body = <<>> THEN <<"">>
                                  ELSE p \o b.body,
               rest |-> b.rest ]
    ELSE LET x == CHOOSE y \in DapnetSplits(ssid) : y[1] = m[i + 1]
         IN  [ what |-> m[i], message_callsign |-> Upper(x[2]),
               dapnet_message |-> <<x[3]>>,
               rest |-> IF x[4] = "" THEN <<>> ELSE <<x[4]>> ]

RECURSIVE SubDapnet(_, _)
SubDapnet(m, ssid) ==
    IF m = <<>> THEN <<>>
    ELSE IF DapnetAt(m, ssid, 1)
         THEN SubDapnet(DapnetMatchAt(m, ssid, 1).rest, ssid)
         ELSE <<m[1]>> \o SubDapnet(Tail(m), ssid)

parse_what_keyword_dapnet(m, users_cs, s) ==
    LET Has(ssid) == \E i \in DOMAIN m : DapnetAt(m, ssid, i)
        First(ssid) == CHOOSE i \in DOMAIN m :
                           DapnetAt(m, ssid, i)
                           /\ \A j \in 1..(i - 1) : ~DapnetAt(m, ssid, j)
        Ret(ssid) ==
            LET k == DapnetMatchAt(m, ssid, First(ssid))
            IN  [ found_my_keyword |-> TRUE, kw_err |-> FALSE,
                  fields |-> [ what |-> k.what,
                               message_callsign |-> k.message_callsign,
                               human_readable_message |-> NoMsg,
                               dapnet_message |-> k.dapnet_message ],
                  aprs_message |-> SubDapnet(m, ssid),
                  calls |-> <<>>, used |-> 0 ]
    IN  IF Has(TRUE) THEN Ret(TRUE)
        ELSE IF Has(FALSE) THEN Ret(FALSE)
        ELSE [ found_my_keyword |-> FALSE, kw_err |-> FALSE,
               fields |-> [ what |-> None, message_callsign |-> None,
                            human_readable_message |-> NoMsg,
                            dapnet_message |-> NoMsg ],
               aprs_message |-> m, calls |-> <<>>, used |-> 0 ]

Dapnet ==
    RuleStep("dapnet",
             [ s \in Scripts(0) |->
                 parse_what_keyword_dapnet(aprs_message, users_callsign, s) ])

(***************************************************************************)
(* parse_what_keyword_metar, lines 1143-1420.  The branches are tried in   *)
(* this order: "icao XXXX", "iata XXX", a keyword-less ICAO code, a        *)
(* keyword-less IATA code, the bare keyword "metar", the bare keyword      *)
(* "taf".  o is the number of outcomes that earlier branches have used.    *)
(***************************************************************************)
\* ValidateAirport by IATA code: the airport's ICAO code.
IcaoOfIata(t) ==
    CASE t = "fra" -> "EDDF"
      [] t = "m8b" -> "KM8B"
      [] t = "osm" -> "KOSM"
      [] t = "iss" -> "KISS"
      [] OTHER     -> "KJFK"

validate_iata(iata_code, ok, metar_capable) ==
    IF ok
    THEN [ success |-> TRUE, latitude |-> IcaoOfIata(iata_code),
           longitude |-> IcaoOfIata(iata_code), metar_capable |-> metar_capable,
           icao |-> IcaoOfIata(iata_code) ]
    ELSE [ success |-> FALSE, latitude |-> NoPosition, longitude |-> NoPosition,
           metar_capable |-> FALSE, icao |-> None ]

\* [a-zA-Z0-9]{4} and [a-zA-Z0-9]{3}
Alnum4 ==
    { "1abc", "23cm", "70cm", "abcd", "c4fm", "cwop", "eddf", "fuel",
      "full", "grid", "help", "iata", "icao", "info", "jo41", "lang",
      "morn", "nite", "noon", "top2", "top3", "top4", "top5", "view", "w1aw" }

Alnum3 ==
    { "10h", "10m", "11h", "12h", "13h", "14h", "15h", "16h", "17h", "18h",
      "19h", "20h", "21h", "22h", "23c", "23h", "24h", "25h", "26h", "27h",
      "28h", "29h", "30h", "31h", "32h", "33h", "34h", "35h", "36h", "37h",
      "38h", "39h", "40h", "41h", "42h", "43h", "44h", "45h", "46h", "47h",
      "4fm", "70c", "atv", "day", "dmr", "eve", "fra", "fri", "imp", "iss",
      "lng", "m8b", "mon", "mtr", "now", "osm", "sat", "sun", "taf", "thu",
      "top", "tue", "wed", "ysf", "zip" }

\* The tokens that hold a comma or a semicolon.
CommaWords == { "view,", "paris," }
SemicolonWords == { "paris;", "ca;", "12345;" }

\* The test for a comma or a semicolon left out.
NoSeparatorTest(m) == FALSE

HasSeparator(m) == HasTok(m, CommaWords \cup SemicolonWords \cup { ",", ";" })

MetarNoFields(users_cs) ==
    [ what |-> None, message_callsign |-> users_cs,
      human_readable_message |-> NoMsg, icao |-> None ]

\* The result of a branch whose airport has been validated.
MetarFound(m, users_cs, v, what, n) ==
    [ found_my_keyword |-> TRUE, kw_err |-> FALSE,
      fields |-> [ what |-> IF v.metar_capable THEN what ELSE "wx",
                   message_callsign |-> users_cs,
                   human_readable_message |->
                       <<IF v.metar_capable THEN Upper(what) ELSE "Wx",
                         "for", v.icao>>,
                   icao |-> v.icao ],
      aprs_message |-> m, used |-> n ]

\* The bare keywords "metar" and "taf": the sender's position, the nearest
\* airport and its validation; a failure of any of them is no match.
RECURSIVE MetarBare(_, _, _, _, _, _)
MetarBare(m, users_cs, s, o, cl, words) ==
    IF words = <<>>
    THEN [ found_my_keyword |-> FALSE, kw_err |-> FALSE,
           fields |-> MetarNoFields(users_cs), aprs_message |-> m,
           calls |-> cl, used |-> o ]
    ELSE IF ~HasTok(m, {words[1]})
    THEN MetarBare(m, users_cs, s, o, cl, Tail(words))
    ELSE
    LET pos == get_position_on_aprsfi(users_cs, s[o + 1])
        c1 == Call("get_position_on_aprsfi", users_cs, s[o + 1])
        near == get_nearest_icao(pos.latitude, s[o + 2])
        c2 == Call("get_nearest_icao", pos.latitude, s[o + 2])
        v == validate_icao(near, s[o + 3], s[o + 4])
        c3 == Call("validate_icao", near, s[o + 3])
    IN  IF ~pos.success
        THEN MetarBare(m, users_cs, s, o + 1, cl \o <<c1>>, Tail(words))
        ELSE IF near = None
        THEN MetarBare(m, users_cs, s, o + 2, cl \o <<c1, c2>>, Tail(words))
        ELSE IF ~v.success
        THEN MetarBare(m, users_cs, s, o + 3, cl \o <<c1, c2, c3>>, Tail(words))
        ELSE [ found_my_keyword |-> TRUE, kw_err |-> FALSE,
               fields |-> [ what |-> IF v.metar_capable THEN words[1] ELSE "wx",
                            message_callsign |-> users_cs,
                            human_readable_message |->
                                IF v.metar_capable
                                THEN <<Upper(words[1]), "for", v.icao>>
                                ELSE <<"Wx", "for", None>>,
                            icao |-> IF v.metar_capable THEN v.icao ELSE None ],
               aprs_message |-> SubToks(m, {words[1]}),
               calls |-> cl \o <<c1, c2, c3>>, used |-> o + 4 ]

\* The keyword-less IATA code.
MetarIataCandidate(m, users_cs, s, o, cl) ==
    IF ~HasSeparator(m) /\ HasTok(m, Alnum3)
    THEN LET c == FirstTok(m, Alnum3)
             v == validate_iata(c, s[o + 1], s[o + 2])
             c1 == Call("validate_iata", c, s[o + 1])
         IN  IF v.success
             THEN [ calls |-> cl \o <<c1>> ]
                  @@ MetarFound(SubToks(m, Alnum3), users_cs, v, "metar", o + 2)
             ELSE MetarBare(m, users_cs, s, o + 1, cl \o <<c1>>,
                            <<"metar", "taf">>)
    ELSE MetarBare(m, users_cs, s, o, cl, <<"metar", "taf">>)

\* The keyword-less ICAO code.
MetarIcaoCandidate(m, users_cs, s) ==
    IF ~HasSeparator(m) /\ HasTok(m, Alnum4)
    THEN LET c == FirstTok(m, Alnum4)
             v == validate_icao(c, s[1], s[2])
             c1 == Call("validate_icao", c, s[1])
         IN  IF v.success
             THEN [ calls |-> <<c1>> ]
                  @@ MetarFound(SubToks(m, Alnum4), users_cs, v, "metar", 2)
             ELSE MetarIataCandidate(m, users_cs, s, 1, <<c1>>)
    ELSE MetarIataCandidate(m, users_cs, s, 0, <<>>)

\* "icao XXXX" and "iata XXX" with a code that cannot be validated taken
\* for an attempt that did not match.
MetarExplicitIsAttempt(m, users_cs, s, K, A, fn) ==
    LET c == ArgOf(m[FirstPair(m, K, A) + 1], A)
        v == IF fn = "validate_icao" THEN validate_icao(c, s[1], s[2])
             ELSE validate_iata(c, s[1], s[2])
        c1 == Call(fn, c, s[1])
    IN  IF v.success
        THEN [ calls |-> <<c1>> ]
             @@ MetarFound(SubPairs(m, K, A), users_cs, v, "metar", 2)
        ELSE [ found_my_keyword |-> FALSE, kw_err |-> FALSE,
               fields |-> [ what |-> None, message_callsign |-> users_cs,
                            human_readable_message |-> NoMsg, icao |-> None ],
               aprs_message |-> m, calls |-> <<c1>>, used |-> 1 ]

\* "icao XXXX" and "iata XXX": a code that cannot be validated is an error.
MetarExplicit(m, users_cs, s, K, A, fn) ==
    LET c == ArgOf(m[FirstPair(m, K, A) + 1], A)
        v == IF fn = "validate_icao" THEN validate_icao(c, s[1], s[2])
             ELSE validate_iata(c, s[1], s[2])
        text == IF fn = "validate_icao"
                THEN <<"Cannot locate airport ICAO code", v.icao>>
                ELSE <<"Cannot locate airport IATA code", c>>
        c1 == Call(fn, c, s[1])
        rest == SubPairs(m, K, A)
    IN  IF v.success
        THEN [ calls |-> <<c1>> ] @@ MetarFound(rest, users_cs, v, "metar", 2)
        ELSE [ found_my_keyword |-> FALSE, kw_err |-> TRUE,
               fields |-> [ what |-> None, message_callsign |-> users_cs,
                            human_readable_message |-> text,
                            icao |-> None ],
               aprs_message |-> rest, calls |-> <<c1>>, used |-> 1 ]

parse_what_keyword_metar(m, users_cs, s) ==
    IF HasPair(m, {"icao"}, Alnum4)
    THEN MetarExplicit(m, users_cs, s, {"icao"}, Alnum4, "validate_icao")
    ELSE IF HasPair(m, {"iata"}, Alnum3)
    THEN MetarExplicit(m, users_cs, s, {"iata"}, Alnum3, "validate_iata")
    ELSE MetarIcaoCandidate(m, users_cs, s)

\* The handler asks for twelve outcomes at most.
Metar ==
    RuleStep("metar",
             [ s \in Scripts(4 + (IF HasTok(aprs_message, {"metar"}) THEN 4 ELSE 0)
                                + (IF HasTok(aprs_message, {"taf"}) THEN 4 ELSE 0)) |->
                 parse_what_keyword_metar(aprs_message, users_callsign, s) ])

(***************************************************************************)
(* build_human_readable_address_message, lines 2552-2595.  The message is  *)
(* the sequence of its parts.                                              *)
(***************************************************************************)
\* The state appended for every country.
build_address_with_any_state(rd) ==
    LET place == IF MsgTruthy(rd.city)
                 THEN rd.city
                      \o (IF Truthy(rd.state) THEN <<",", rd.state>> ELSE <<>>)
                      \o (IF MsgTruthy(rd.zipcode) THEN <<",">> \o rd.zipcode ELSE <<>>)
                 ELSE IF Truthy(rd.county) THEN <<rd.county>> ELSE <<>>
        parts == place \o (IF Truthy(rd.country_code)
                           THEN <<";", rd.country_code>> ELSE <<>>)
    IN  IF parts = <<>> THEN <<"">> ELSE parts

build_human_readable_address_message(rd) ==
    LET place == IF MsgTruthy(rd.city)
                 THEN rd.city
                      \o (IF rd.country_code = "US" /\ Truthy(rd.state)
                          THEN <<",", rd.state>> ELSE <<>>)
                      \o (IF MsgTruthy(rd.zipcode) THEN <<",">> \o rd.zipcode ELSE <<>>)
                 ELSE IF Truthy(rd.county) THEN <<rd.county>> ELSE <<>>
        parts == place \o (IF Truthy(rd.country_code)
                           THEN <<";", rd.country_code>> ELSE <<>>)
    IN  IF parts = <<>> THEN <<"">> ELSE parts

(***************************************************************************)
(* The remaining collaborators of the weather rule.                        *)
(***************************************************************************)
\* ValidateCountryCode(code)
validate_country(country_code, ok) == ok

\* ForwardGeocode(query, language); the position is named "geo".
get_geocode_geopy_data(ok) ==
    IF ok THEN [ success |-> TRUE, latitude |-> "geo", longitude |-> "geo" ]
    ELSE [ success |-> FALSE, latitude |-> NoPosition, longitude |-> NoPosition ]

\* maidenhead.to_location(locator): the position is named by the locator.
to_location(locator) == [ latitude |-> locator, longitude |-> locator ]

(***************************************************************************)
(* parse_what_keyword_wx, lines 1423-1886: the token classes.              *)
(***************************************************************************)
Cap(t) ==
    CASE t = "abcd" -> "Abcd"
      [] t = "abcd1" -> "Abcd1"
      [] t = "atv" -> "Atv"
      [] t = "b" -> "B"
      [] t = "c" -> "C"
      [] t = "c4fm" -> "C4fm"
      [] t = "ca" -> "Ca"
      [] t = "ca;" -> "Ca;"
      [] t = "current" -> "Current"
      [] t = "cwop" -> "Cwop"
      [] t = "d-star" -> "D-star"
      [] t = "dapnet" -> "Dapnet"
      [] t = "dapnethp" -> "Dapnethp"
      [] t = "day" -> "Day"
      [] t = "daytime" -> "Daytime"
      [] t = "de" -> "De"
      [] t = "df" -> "Df"
      [] t = "df1ab" -> "Df1ab"
      [] t = "df1abc" -> "Df1abc"
      [] t = "df1abc-1" -> "Df1abc-1"
      [] t = "df1jsl-1" -> "Df1jsl-1"
      [] t = "dmr" -> "Dmr"
      [] t = "dstar" -> "Dstar"
      [] t = "eddf" -> "Eddf"
      [] t = "eve" -> "Eve"
      [] t = "evening" -> "Evening"
      [] t = "fm" -> "Fm"
      [] t = "forecast" -> "Forecast"
      [] t = "fortuneteller" -> "Fortuneteller"
      [] t = "fr" -> "Fr"
      [] t = "fra" -> "Fra"
      [] t = "fri" -> "Fri"
      [] t = "friday" -> "Friday"
      [] t = "fuel" -> "Fuel"
      [] t = "full" -> "Full"
      [] t = "grid" -> "Grid"
      [] t = "help" -> "Help"
      [] t = "iata" -> "Iata"
      [] t = "icao" -> "Icao"
      [] t = "imp" -> "Imp"
      [] t = "imperial" -> "Imperial"
      [] t = "info" -> "Info"
      [] t = "iss" -> "Iss"
      [] t = "jo" -> "Jo"
      [] t = "jo41" -> "Jo41"
      [] t = "lang" -> "Lang"
      [] t = "lng" -> "Lng"
      [] t = "m" -> "M"
      [] t = "m8" -> "M8"
      [] t = "m8b" -> "M8b"
      [] t = "magic8" -> "Magic8"
      [] t = "magic8ball" -> "Magic8ball"
      [] t = "metar" -> "Metar"
      [] t = "metric" -> "Metric"
      [] t = "mh" -> "Mh"
      [] t = "mon" -> "Mon"
      [] t = "monday" -> "Monday"
      [] t = "morn" -> "Morn"
      [] t = "morning" -> "Morning"
      [] t = "mtr" -> "Mtr"
      [] t = "night" -> "Night"
      [] t = "nite" -> "Nite"
      [] t = "noon" -> "Noon"
      [] t = "now" -> "Now"
      [] t = "osm" -> "Osm"
      [] t = "paris" -> "Paris"
      [] t = "paris," -> "Paris,"
      [] t = "paris;" -> "Paris;"
      [] t = "police" -> "Police"
      [] t = "posmsg" -> "Posmsg"
      [] t = "posrpt" -> "Posrpt"
      [] t = "repeater" -> "Repeater"
      [] t = "riseset" -> "Riseset"
      [] t = "sat" -> "Sat"
      [] t = "satfreq" -> "Satfreq"
      [] t = "satpass" -> "Satpass"
      [] t = "saturday" -> "Saturday"
      [] t = "sonde" -> "Sonde"
      [] t = "sun" -> "Sun"
      [] t = "sunday" -> "Sunday"
      [] t = "taf" -> "Taf"
      [] t = "tetra" -> "Tetra"
      [] t = "thu" -> "Thu"
      [] t = "thursday" -> "Thursday"
      [] t = "today" -> "Today"
      [] t = "tomorrow" -> "Tomorrow"
      [] t = "tonight" -> "Tonight"
      [] t = "tonite" -> "Tonite"
      [] t = "top" -> "Top"
      [] t = "top2" -> "Top2"
      [] t = "top3" -> "Top3"
      [] t = "top4" -> "Top4"
      [] t = "top5" -> "Top5"
      [] t = "tue" -> "Tue"
      [] t = "tuesday" -> "Tuesday"
      [] t = "unicode" -> "Unicode"
      [] t = "us" -> "Us"
      [] t = "view" -> "View"
      [] t = "view," -> "View,"
      [] t = "vispass" -> "Vispass"
      [] t = "w1aw" -> "W1aw"
      [] t = "wed" -> "Wed"
      [] t = "wednesday" -> "Wednesday"
      [] t = "whereami" -> "Whereami"
      [] t = "whereis" -> "Whereis"
      [] t = "wx" -> "Wx"
      [] t = "x" -> "X"
      [] t = "x@y.zz" -> "X@y.zz"
      [] t = "xy" -> "Xy"
      [] t = "ysf" -> "Ysf"
      [] t = "zip" -> "Zip"
      [] OTHER -> t

\* [a-zA-Z]{2} at the start of a token, up to a word boundary
CountryHead(t) ==
    CASE t \in { "fr", "us", "ca", "de", "xy", "wx", "fm", "mh" } -> t
      [] t = "ca;" -> "ca"
      [] OTHER     -> None

FiveDigits == { "12345" }
Locators == { "jo41" }
GridWords == { "grid", "mh" }
LatLonTokens == { "51.8/8.3" }
BadLatLonTokens == { "1.2.3/4" }
\* [a-zA-Z0-9]{1,3}[0-9][a-zA-Z0-9]{0,3}-[0-9]{1,2}
WxCallsignsWithSsid == { "df1abc-1" }

\* The number of characters of a token.
Chars(t) ==
    CASE t \in { ",", "-", "1", "2", "3", "4", "5", ";", "b", "c", "m", "x" } -> 1
      [] t \in { "-1", "1d", "1h", "2d", "2h", "2m", "3d", "3h", "41", "4d",
                 "4h", "51", "5d", "5h", "6d", "6h", "7d", "7h", "8b", "8h",
                 "9h", "ca", "de", "df", "fm", "fr", "jo", "m8", "mh", "us",
                 "wx", "xy" } -> 2
      [] t \in { "10h", "10m", "11h", "12h", "13h", "14h", "15h", "16h", "17h",
                 "18h", "19h", "20h", "21h", "22h", "23c", "23h", "24h", "25h",
                 "26h", "27h", "28h", "29h", "30h", "31h", "32h", "33h", "34h",
                 "35h", "36h", "37h", "38h", "39h", "40h", "41h", "42h", "43h",
                 "44h", "45h", "46h", "47h", "4fm", "70c", "8.3", "atv", "ca;",
                 "day", "dmr", "eve", "fra", "fri", "imp", "iss", "lng", "m8b",
                 "mon", "mtr", "now", "osm", "sat", "sun", "taf", "thu", "top",
                 "tue", "wed", "ysf", "zip" } -> 3
      [] t \in { "1abc", "23cm", "51.8", "70cm", "abcd", "c4fm", "cwop",
                 "eddf", "fuel", "full", "grid", "help", "iata", "icao",
                 "info", "jo41", "lang", "morn", "nite", "noon", "top2",
                 "top3", "top4", "top5", "view", "w1aw" } -> 4
      [] t \in { "12345", "@y.zz", "abcd1", "df1ab", "dstar", "metar", "night",
                 "paris", "sonde", "tetra", "today", "view," } -> 5
      [] t \in { ".2.3/4", ".8/8.3", "12345;", "1abc-1", "d-star", "dapnet",
                 "df1abc", "friday", "magic8", "metric", "monday", "paris,",
                 "paris;", "police", "posmsg", "posrpt", "sunday", "tonite",
                 "x@y.zz" } -> 6
      [] t \in { "1.2.3/4", "current", "daytime", "evening", "morning",
                 "riseset", "satfreq", "satpass", "tonight", "tuesday",
                 "unicode", "vispass", "whereis" } -> 7
      [] t \in { "51.8/8.3", "dapnethp", "df1abc-1", "df1jsl-1", "forecast",
                 "imperial", "repeater", "saturday", "thursday", "tomorrow",
                 "whereami" } -> 8
      [] t \in { "wednesday" } -> 9
      [] t \in { "magic8ball" } -> 10
      [] t \in { "fortuneteller" } -> 13
      [] OTHER -> 0

\* The tokens of [a-zA-Z0-9-( )] only.
ZipClass(t) == t \notin { "x@y.zz", "@y.zz", ";", ",", "51.8/8.3", "1.2.3/4",
                         ".8/8.3", ".2.3/4" }
                 \cup CommaWords \cup SemicolonWords

(***************************************************************************)
(* The three city patterns of the weather rule: "city, state; country",    *)
(* "city, state" and "city; country".  The city [\D\s]+ is every           *)
(* character from the leftmost possible start up to the last separator     *)
(* that the rest of the pattern follows; none of them is a digit.          *)
(***************************************************************************)
\* The first token of the run of digit-free tokens that ends before token j.
RunStart(m, j) ==
    CHOOSE x \in 1..j :
        /\ \A k \in x..(j - 1) : DigitFree(m[k])
        /\ \A y \in 1..(x - 1) : \E k \in y..(j - 1) : ~DigitFree(m[k])

\* The city starts at a word boundary: at the first word of the run when the
\* run starts the text, and else right after the last digit before the run.
CityStart(m, j) ==
    LET x == RunStart(m, j)
        words == { k \in x..j : m[k] \notin { ",", ";" } }
    IN  IF x > 1 THEN x
        ELSE IF words = {} THEN 0
        ELSE CHOOSE k \in words : \A l \in words : k <= l

\* The separator that follows the digit-free token before the city.
CityLead(m, j) ==
    LET x == RunStart(m, j)
    IN  IF x > 1 /\ m[x - 1] \in CommaWords \cup SemicolonWords
        THEN WordRest(m[x - 1]) ELSE <<>>

SepAt(m, j, S, sep) == (m[j] \in S /\ DigitFree(Stem(m[j]))) \/ m[j] = sep

WxEnd(m, kind, j) ==
    /\ CityStart(m, j) # 0
    /\ CASE kind = 1 -> /\ SepAt(m, j, CommaWords, ",")
                        /\ j + 2 <= Len(m)
                        /\ m[j + 1] \in SemicolonWords
                        /\ CountryHead(m[j + 2]) # None
         [] kind = 2 -> /\ SepAt(m, j, CommaWords, ",")
                        /\ j + 1 <= Len(m)
                        /\ WordHead(m[j + 1]) # None
         [] kind = 3 -> /\ SepAt(m, j, SemicolonWords, ";")
                        /\ j + 1 <= Len(m)
                        /\ CountryHead(m[j + 1]) # None

HasWxCity(m, kind) == \E j \in DOMAIN m : WxEnd(m, kind, j)

\* The match whose separator is token j.
WxCityAt(m, kind, j) ==
    LET x == CityStart(m, j)
        lead == CityLead(m, j)
        last == IF kind = 1 THEN j + 2 ELSE j + 1
        words == lead \o SubSeq(m, x, j - 1)
                 \o (IF m[j] \in { ",", ";" } THEN <<>> ELSE <<Stem(m[j])>>)
    IN  [ city |-> IF words = <<>> THEN <<"">>
                   ELSE [ k \in DOMAIN words |-> Cap(words[k]) ],
          state |-> CASE kind = 1 -> Upper(Stem(m[j + 1]))
                      [] kind = 2 -> Upper(WordHead(m[j + 1]))
                      [] kind = 3 -> None,
          country_code |-> CASE kind = 1 -> Upper(CountryHead(m[j + 2]))
                             [] kind = 2 -> "US"
                             [] kind = 3 -> Upper(CountryHead(m[j + 1])),
          before |-> IF lead = <<>> THEN SubSeq(m, 1, x - 1)
                     ELSE SubSeq(m, 1, x - 2) \o <<Stem(m[x - 1])>>,
          after |-> WordRest(m[last]) \o SubSeq(m, last + 1, Len(m)) ]

\* The leftmost match: of the separators that end a city with the leftmost
\* start, the pattern takes the last one.
WxCityMatch(m, kind) ==
    WxCityAt(m, kind,
             LET ends == { j \in DOMAIN m : WxEnd(m, kind, j) }
                 j0 == CHOOSE j \in ends : \A k \in ends : j <= k
                 same == { j \in ends : RunStart(m, j) = RunStart(m, j0) }
             IN  CHOOSE k \in same : \A l \in same : l <= k)

\* re.sub removes every match.  A match ends with a word, so the text after
\* it starts at a word boundary, as the text after a digit does: the next
\* match is the match in that text behind a token of digits.
RECURSIVE SubWxCity(_, _)
SubWxCity(m, kind) ==
    IF ~HasWxCity(m, kind) THEN m
    ELSE LET k == WxCityMatch(m, kind)
         IN  k.before \o Tail(SubWxCity(<<"12345">> \o k.after, kind))

\* What the handler returns when nothing has matched.
WxNoFields(users_cs) ==
    [ latitude |-> NoPosition, longitude |-> NoPosition, what |-> None,
      message_callsign |-> users_cs, human_readable_message |-> NoMsg,
      city |-> NoMsg, state |-> None, country_code |-> None,
      zipcode |-> NoMsg, county |-> None ]

\* The fields of a reverse-geocoded address, and its message.
WxAddress(f, rd, withZip) ==
    [f EXCEPT !.city = rd.city, !.state = rd.state,
              !.country_code = rd.country_code, !.county = rd.county,
              !.zipcode = IF withZip THEN rd.zipcode ELSE f.zipcode,
              !.human_readable_message =
                  build_human_readable_address_message(rd)]

\* k is the match of the city pattern, rest the text without it.
WxCity(m, users_cs, s, k, rest) ==
    LET geo == get_geocode_geopy_data(s[2])
        c1 == Call("validate_country", k.country_code, s[1])
        c2 == Call("get_geocode_geopy_data", k.country_code, s[2])
        base == [WxNoFields(users_cs) EXCEPT !.city = k.city,
                                             !.state = k.state,
                                             !.country_code = k.country_code]
    IN  IF ~validate_country(k.country_code, s[1])
        THEN [ found_my_keyword |-> TRUE, kw_err |-> TRUE,
               fields |-> [base EXCEPT !.human_readable_message =
                               <<errmsg_invalid_country, k.country_code>>],
               aprs_message |-> rest, calls |-> <<c1>>, used |-> 1 ]
        ELSE IF ~geo.success
        THEN [ found_my_keyword |-> TRUE, kw_err |-> TRUE,
               fields |-> [base EXCEPT !.human_readable_message =
                               <<errmsg_cannot_find_coords_for_address>>],
               aprs_message |-> rest, calls |-> <<c1, c2>>, used |-> 2 ]
        ELSE [ found_my_keyword |-> TRUE, kw_err |-> FALSE,
               fields |-> [base EXCEPT !.what = "wx",
                               !.latitude = geo.latitude,
                               !.longitude = geo.longitude,
                               !.human_readable_message =
                                   k.city
                                   \o (IF Truthy(k.state) /\ k.country_code = "US"
                                       THEN <<",", k.state>> ELSE <<>>)
                                   \o (IF k.country_code # "US"
                                       THEN <<";", k.country_code>> ELSE <<>>)],
               aprs_message |-> rest, calls |-> <<c1, c2>>, used |-> 2 ]

(***************************************************************************)
(* The postal code patterns of the weather rule: "zip <code>; country",    *)
(* "zip <5 digits>" and "<code>; country".  A code is 3 to 10 characters   *)
(* of [a-zA-Z0-9-( )], blanks included, up to the semicolon.               *)
(***************************************************************************)

RECURSIVE ZipLen(_, _, _)
ZipLen(m, a, j) ==
    IF a >= j THEN Chars(Stem(m[j])) ELSE Chars(m[a]) + 1 + ZipLen(m, a + 1, j)

\* The tokens a..j hold a code that ends at the semicolon of token j, and a
\* country follows.
ZipSpan(m, a, j) ==
    /\ a <= j /\ j + 1 <= Len(m)
    /\ m[j] \in SemicolonWords /\ ZipClass(Stem(m[j]))
    /\ \A k \in a..(j - 1) : ZipClass(m[k]) /\ m[k] \notin SemicolonWords
    /\ CountryHead(m[j + 1]) # None

\* "zip <code>; country" with the keyword at token i.
ZipKeywordAt(m, i) ==
    /\ m[i] \in { "zip" }
    /\ \E j \in (i + 1)..Len(m) :
         ZipSpan(m, i + 1, j)
         /\ \E lead \in {0, 1} : ZipLen(m, i + 1, j) + lead \in 3..10

\* "<code>; country" starting at token a (lead = 0), or at the blank before
\* it (lead = 1): the code has 3 to 10 characters.
ZipBareAt(m, a, lead) ==
    /\ lead = 1 => (a > 1 /\ WordRest(m[a - 1]) = <<>> /\ WordHead(m[a - 1]) # None)
    /\ \E j \in a..Len(m) : ZipSpan(m, a, j) /\ ZipLen(m, a, j) + lead \in 3..10

\* kind 1: with the keyword; kind 3: without.
HasZip(m, kind) ==
    IF kind = 1 THEN \E i \in DOMAIN m : ZipKeywordAt(m, i)
    ELSE \E a \in DOMAIN m : \E lead \in {0, 1} : ZipBareAt(m, a, lead)

\* The match whose code starts at token a.
ZipFrom(m, kind, a) ==
    LET j == CHOOSE x \in a..Len(m) : ZipSpan(m, a, x)
    IN  [ zipcode |-> [ k \in 1..(j - a + 1) |->
                          IF k = j - a + 1 THEN Stem(m[j]) ELSE m[a + k - 1] ],
          country_code |-> Upper(CountryHead(m[j + 1])),
          before |-> SubSeq(m, 1, IF kind = 1 THEN a - 2 ELSE a - 1),
          after |-> WordRest(m[j + 1]) \o SubSeq(m, j + 2, Len(m)) ]

ZipMatch(m, kind) ==
    ZipFrom(m, kind,
            IF kind = 1
            THEN 1 + CHOOSE i \in DOMAIN m :
                         ZipKeywordAt(m, i)
                         /\ \A x \in 1..(i - 1) : ~ZipKeywordAt(m, x)
            ELSE CHOOSE x \in DOMAIN m :
                     /\ \E lead \in {0, 1} : ZipBareAt(m, x, lead)
                     /\ \A y \in 1..(x - 1) :
                           \A lead \in {0, 1} : ~ZipBareAt(m, y, lead))

RECURSIVE SubZip(_, _)
SubZip(m, kind) ==
    IF ~HasZip(m, kind) THEN m
    ELSE LET k == ZipMatch(m, kind) IN k.before \o SubZip(k.after, kind)

\* re.sub of a pattern that matches one word: the rest of its token stays.
RECURSIVE SubWords(_, _)
SubWords(m, W) ==
    IF m = <<>> THEN <<>>
    ELSE (IF WordHead(m[1]) \in W THEN WordRest(m[1]) ELSE <<m[1]>>)
         \o SubWords(Tail(m), W)

HasWord(m, W) == \E i \in DOMAIN m : WordHead(m[i]) \in W

FirstWord(m, W) ==
    WordHead(m[CHOOSE i \in DOMAIN m :
                   WordHead(m[i]) \in W
                   /\ \A j \in 1..(i - 1) : WordHead(m[j]) \notin W])

\* The code branches: country validation, geocoding, reverse geocoding.
WxZip(m, users_cs, s, zipcode, country_code, rest) ==
    LET geo == get_geocode_geopy_data(s[2])
        rev == get_reverse_geopy_data(geo.latitude, s[3])
        c1 == Call("validate_country", country_code, s[1])
        c2 == Call("get_geocode_geopy_data", country_code, s[2])
        c3 == Call("get_reverse_geopy_data", geo.latitude, s[3])
        base == [WxNoFields(users_cs) EXCEPT !.zipcode = zipcode,
                                             !.country_code = country_code]
        ok == [base EXCEPT !.what = "wx", !.latitude = geo.latitude,
                           !.longitude = geo.longitude,
                           !.human_readable_message =
                               <<"Zip">> \o zipcode \o <<";", country_code>>]
    IN  IF ~validate_country(country_code, s[1])
        THEN [ found_my_keyword |-> TRUE, kw_err |-> TRUE,
               fields |-> [base EXCEPT !.human_readable_message =
                               <<errmsg_invalid_country, country_code>>],
               aprs_message |-> rest, calls |-> <<c1>>, used |-> 1 ]
        ELSE IF ~geo.success
        THEN [ found_my_keyword |-> TRUE, kw_err |-> TRUE,
               fields |-> [base EXCEPT !.human_readable_message =
                               <<errmsg_cannot_find_coords_for_address>>],
               aprs_message |-> rest, calls |-> <<c1, c2>>, used |-> 2 ]
        ELSE [ found_my_keyword |-> TRUE, kw_err |-> FALSE,
               fields |-> IF rev.success
                          THEN WxAddress(ok, rev.response_data, FALSE) ELSE ok,
               aprs_message |-> rest, calls |-> <<c1, c2, c3>>, used |-> 3 ]

\* The bare five-digit code: geocoding and reverse geocoding.
WxFiveDigits(m, users_cs, s) ==
    LET zipcode == <<FirstWord(m, FiveDigits)>>
        geo == get_geocode_geopy_data(s[1])
        rev == get_reverse_geopy_data(geo.latitude, s[2])
        c1 == Call("get_geocode_geopy_data", "US", s[1])
        c2 == Call("get_reverse_geopy_data", geo.latitude, s[2])
        base == [WxNoFields(users_cs) EXCEPT !.zipcode = zipcode,
                               !.country_code = "US", !.what = "wx",
                               !.latitude = geo.latitude,
                               !.longitude = geo.longitude,
                               !.human_readable_message =
                                   <<"Zip">> \o zipcode \o <<";", "US">>]
    IN  IF ~geo.success
        THEN [ found_my_keyword |-> TRUE, kw_err |-> TRUE,
               fields |-> [base EXCEPT !.human_readable_message =
                               <<errmsg_cannot_find_coords_for_address>>],
               aprs_message |-> SubWords(m, FiveDigits),
               calls |-> <<c1>>, used |-> 1 ]
        ELSE [ found_my_keyword |-> TRUE, kw_err |-> FALSE,
               fields |-> IF rev.success
                          THEN WxAddress(base, rev.response_data, TRUE) ELSE base,
               aprs_message |-> SubWords(m, FiveDigits),
               calls |-> <<c1, c2>>, used |-> 2 ]

\* A keyword token, then a token that starts with a word of W.
KwWordInAt(m, K, W, i) ==
    i + 1 <= Len(m) /\ m[i] \in K /\ WordHead(m[i + 1]) \in W

RECURSIVE SubKwWordIn(_, _, _)
SubKwWordIn(m, K, W) ==
    IF m = <<>> THEN <<>>
    ELSE IF KwWordInAt(m, K, W, 1)
         THEN WordRest(m[2]) \o SubKwWordIn(SubSeq(m, 3, Len(m)), K, W)
         ELSE <<m[1]>> \o SubKwWordIn(Tail(m), K, W)

FirstKwWordIn(m, K, W) ==
    CHOOSE i \in DOMAIN m :
        KwWordInAt(m, K, W, i) /\ \A j \in 1..(i - 1) : ~KwWordInAt(m, K, W, j)

\* The Maidenhead locator, with or without its keyword.
WxGrid(m, users_cs, locator, rest) ==
    [ found_my_keyword |-> TRUE, kw_err |-> FALSE,
      fields |-> [WxNoFields(users_cs) EXCEPT
                      !.what = "wx",
                      !.latitude = to_location(locator).latitude,
                      !.longitude = to_location(locator).longitude,
                      !.human_readable_message = <<locator>>],
      aprs_message |-> rest, calls |-> <<>>, used |-> 0 ]

\* float() of the two numbers of "<latitude>/<longitude>".
LatitudeOf(t) == CASE t = "51.8/8.3" -> "51.8" [] OTHER -> NoPosition
LongitudeOf(t) == CASE t = "51.8/8.3" -> "8.3" [] OTHER -> NoPosition

WxLatLon(m, users_cs, s) ==
    LET t == FirstTok(m, LatLonTokens \cup BadLatLonTokens)
        rev == get_reverse_geopy_data(LatitudeOf(t), s[1])
        base == [WxNoFields(users_cs) EXCEPT
                     !.what = "wx", !.latitude = LatitudeOf(t),
                     !.longitude = LongitudeOf(t),
                     !.human_readable_message =
                         <<"lat", LatitudeOf(t), "/lon", LongitudeOf(t)>>]
    IN  IF t \in BadLatLonTokens
        THEN [ found_my_keyword |-> FALSE, kw_err |-> TRUE,
               fields |-> [WxNoFields(users_cs) EXCEPT
                   !.human_readable_message = <<"Error while parsing coordinates">>],
               aprs_message |-> m, calls |-> <<>>, used |-> 0 ]
        ELSE [ found_my_keyword |-> TRUE, kw_err |-> FALSE,
               fields |-> IF rev.success
                          THEN WxAddress(base, rev.response_data, TRUE) ELSE base,
               aprs_message |-> SubToks(m, LatLonTokens \cup BadLatLonTokens),
               calls |-> <<Call("get_reverse_geopy_data", LatitudeOf(t), s[1])>>,
               used |-> 1 ]

\* A callsign, with a numeric SSID or without one.
WxCallsign(m, users_cs, s, callsign, rest) ==
    LET pos == get_position_on_aprsfi(callsign, s[1])
        rev == get_reverse_geopy_data(pos.latitude, s[2])
        c1 == Call("get_position_on_aprsfi", callsign, s[1])
        c2 == Call("get_reverse_geopy_data", pos.latitude, s[2])
        base == [WxNoFields(users_cs) EXCEPT
                     !.latitude = pos.latitude, !.longitude = pos.longitude,
                     !.message_callsign = pos.message_callsign]
        ok == [base EXCEPT !.what = "wx",
                           !.human_readable_message = <<pos.message_callsign>>]
    IN  IF ~pos.success
        THEN [ found_my_keyword |-> TRUE, kw_err |-> TRUE,
               fields |-> [base EXCEPT !.human_readable_message =
                   <<errmsg_cannot_find_coords_for_user, pos.message_callsign>>],
               aprs_message |-> rest, calls |-> <<c1>>, used |-> 1 ]
        ELSE [ found_my_keyword |-> TRUE, kw_err |-> FALSE,
               fields |-> IF rev.success
                          THEN WxAddress(ok, rev.response_data, TRUE) ELSE ok,
               aprs_message |-> rest, calls |-> <<c1, c2>>, used |-> 2 ]

\* The handler had the callsign without an SSID been tried before the one
\* with an SSID.
parse_what_keyword_wx_bare_callsign_first(m, users_cs, s) ==
    IF HasWxCity(m, 1)
    THEN WxCity(m, users_cs, s, WxCityMatch(m, 1), SubWxCity(m, 1))
    ELSE IF HasWxCity(m, 2)
    THEN WxCity(m, users_cs, s, WxCityMatch(m, 2), SubWxCity(m, 2))
    ELSE IF HasWxCity(m, 3)
    THEN WxCity(m, users_cs, s, WxCityMatch(m, 3), SubWxCity(m, 3))
    ELSE IF HasZip(m, 1)
    THEN WxZip(m, users_cs, s, ZipMatch(m, 1).zipcode,
               ZipMatch(m, 1).country_code, SubZip(m, 1))
    ELSE IF \E i \in DOMAIN m : KwWordInAt(m, { "zip" }, FiveDigits, i)
    THEN WxZip(m, users_cs, s,
               <<WordHead(m[FirstKwWordIn(m, { "zip" }, FiveDigits) + 1])>>,
               "US", SubKwWordIn(m, { "zip" }, FiveDigits))
    ELSE IF HasZip(m, 3)
    THEN WxZip(m, users_cs, s, ZipMatch(m, 3).zipcode,
               ZipMatch(m, 3).country_code, SubZip(m, 3))
    ELSE IF HasWord(m, FiveDigits) THEN WxFiveDigits(m, users_cs, s)
    ELSE IF \E i \in DOMAIN m : KwWordInAt(m, GridWords, Locators, i)
    THEN WxGrid(m, users_cs,
                WordHead(m[FirstKwWordIn(m, GridWords, Locators) + 1]),
                SubKwWordIn(m, GridWords, Locators))
    ELSE IF HasWord(m, Locators)
    THEN WxGrid(m, users_cs, FirstWord(m, Locators), SubWords(m, Locators))
    ELSE IF HasTok(m, LatLonTokens \cup BadLatLonTokens)
    THEN WxLatLon(m, users_cs, s)
    ELSE IF HasWord(m, CallsignsNoSsid)
    THEN WxCallsign(m, users_cs, s, Upper(FirstWord(m, CallsignsNoSsid)),
                    SubWords(m, CallsignsNoSsid))
    ELSE IF HasTok(m, WxCallsignsWithSsid)
    THEN WxCallsign(m, users_cs, s, Upper(FirstTok(m, WxCallsignsWithSsid)),
                    SubToks(m, WxCallsignsWithSsid))
    ELSE [ found_my_keyword |-> FALSE, kw_err |-> FALSE,
           fields |-> WxNoFields(users_cs), aprs_message |-> m,
           calls |-> <<>>, used |-> 0 ]

\* The branches of the handler, in the order of the source.
parse_what_keyword_wx(m, users_cs, s) ==
    IF HasWxCity(m, 1)
    THEN WxCity(m, users_cs, s, WxCityMatch(m, 1), SubWxCity(m, 1))
    ELSE IF HasWxCity(m, 2)
    THEN WxCity(m, users_cs, s, WxCityMatch(m, 2), SubWxCity(m, 2))
    ELSE IF HasWxCity(m, 3)
    THEN WxCity(m, users_cs, s, WxCityMatch(m, 3), SubWxCity(m, 3))
    ELSE IF HasZip(m, 1)
    THEN WxZip(m, users_cs, s, ZipMatch(m, 1).zipcode,
               ZipMatch(m, 1).country_code, SubZip(m, 1))
    ELSE IF \E i \in DOMAIN m : KwWordInAt(m, { "zip" }, FiveDigits, i)
    THEN WxZip(m, users_cs, s,
               <<WordHead(m[FirstKwWordIn(m, { "zip" }, FiveDigits) + 1])>>,
               "US", SubKwWordIn(m, { "zip" }, FiveDigits))
    ELSE IF HasZip(m, 3)
    THEN WxZip(m, users_cs, s, ZipMatch(m, 3).zipcode,
               ZipMatch(m, 3).country_code, SubZip(m, 3))
    ELSE IF HasWord(m, FiveDigits) THEN WxFiveDigits(m, users_cs, s)
    ELSE IF \E i \in DOMAIN m : KwWordInAt(m, GridWords, Locators, i)
    THEN WxGrid(m, users_cs,
                WordHead(m[FirstKwWordIn(m, GridWords, Locators) + 1]),
                SubKwWordIn(m, GridWords, Locators))
    ELSE IF HasWord(m, Locators)
    THEN WxGrid(m, users_cs, FirstWord(m, Locators), SubWords(m, Locators))
    ELSE IF HasTok(m, LatLonTokens \cup BadLatLonTokens)
    THEN WxLatLon(m, users_cs, s)
    ELSE IF HasTok(m, WxCallsignsWithSsid)
    THEN WxCallsign(m, users_cs, s, Upper(FirstTok(m, WxCallsignsWithSsid)),
                    SubToks(m, WxCallsignsWithSsid))
    ELSE IF HasWord(m, CallsignsNoSsid)
    THEN WxCallsign(m, users_cs, s, Upper(FirstWord(m, CallsignsNoSsid)),
                    SubWords(m, CallsignsNoSsid))
    ELSE [ found_my_keyword |-> FALSE, kw_err |-> FALSE,
           fields |-> WxNoFields(users_cs), aprs_message |-> m,
           calls |-> <<>>, used |-> 0 ]

Wx ==
    RuleStep("wx",
             [ s \in Scripts(3) |->
                 parse_what_keyword_wx(aprs_message, users_callsign, s) ])

(***************************************************************************)
(* The end of parse_input_message.                                         *)
(***************************************************************************)
\* The tests of lines 530 and 545 had they been written otherwise: the first
\* one asking for a daytime, the second one looking at 'when' only.
NothingFoundButDaytime(f) ==
    ~Truthy(f.what) /\ ~Truthy(f.when) /\ Truthy(f.when_daytime)

GarbageLeftWhenOnly(f, m) == ~Truthy(f.what) /\ Truthy(f.when) /\ Len(m) > 0

\* Lines 530-549: nothing found at all, or text left over beside a date or
\* a time of day.
NothingFound(f) == ~Truthy(f.what) /\ ~Truthy(f.when) /\ ~Truthy(f.when_daytime)

\* The garbage check had the test of line 545 been left out: text left over
\* beside a date or a time of day is an error whether or not a command was
\* found.
GarbageLeftBesideCommand(f, m) ==
    (Truthy(f.when) \/ Truthy(f.when_daytime)) /\ Len(m) > 0

GarbageLeft(f, m) ==
    ~Truthy(f.what) /\ (Truthy(f.when) \/ Truthy(f.when_daytime)) /\ Len(m) > 0

\* The validator had the test of line 533 been left out: its first check
\* replaces the message that a rule has supplied.
ValidateReplacesMessage ==
    /\ pc = "validate"
    /\ pc' = "backfill"
    /\ LET e1 == ~Truthy(rp.what) /\ ~Truthy(rp.when) /\ ~Truthy(rp.when_daytime)
           e2 == /\ ~Truthy(rp.what)
                 /\ Truthy(rp.when) \/ Truthy(rp.when_daytime)
                 /\ Len(aprs_message) > 0
       IN  /\ err' = (err \/ e1 \/ e2)
           /\ rp' = [rp EXCEPT !.human_readable_message =
                        IF e1 \/ e2 THEN <<errmsg_invalid_command>> ELSE @]
           /\ errors' = IF e1 \/ e2 THEN Append(errors, "validate") ELSE errors
    /\ UNCHANGED <<aprs_message, users_callsign, found_my_duty_roster,
                   found_when, found_when_daytime, success, msg_in, calls,
                   invoked, claimers, other>>

\* The validator had line 535 been left out: the message is set, the error
\* flag is not.
ValidateMessageOnly ==
    /\ pc = "validate"
    /\ pc' = "backfill"
    /\ LET e1 == ~Truthy(rp.what) /\ ~Truthy(rp.when) /\ ~Truthy(rp.when_daytime)
           e2 == /\ ~Truthy(rp.what)
                 /\ Truthy(rp.when) \/ Truthy(rp.when_daytime)
                 /\ Len(aprs_message) > 0
       IN  /\ err' = (err \/ e2)
           /\ rp' = [rp EXCEPT !.human_readable_message =
                        IF e2 THEN <<errmsg_invalid_command>>
                        ELSE IF e1 /\ ~MsgTruthy(@) THEN <<errmsg_invalid_command>>
                        ELSE @]
           /\ errors' = IF e2 THEN Append(errors, "validate") ELSE errors
    /\ UNCHANGED <<aprs_message, users_callsign, found_my_duty_roster,
                   found_when, found_when_daytime, success, msg_in, calls,
                   invoked, claimers, other>>

Validate ==
    /\ pc = "validate"
    /\ pc' = StepAfter(pc)
    /\ LET e1 == NothingFound(rp)
           e2 == GarbageLeft(rp, aprs_message)
       IN  /\ err' = (err \/ e1 \/ e2)
           /\ rp' = [rp EXCEPT !.human_readable_message =
                        IF e2 THEN <<errmsg_invalid_command>>
                        ELSE IF e1 /\ ~MsgTruthy(@) THEN <<errmsg_invalid_command>>
                        ELSE @]
           /\ errors' = IF e1 \/ e2 THEN Append(errors, "validate") ELSE errors
    /\ UNCHANGED <<aprs_message, users_callsign, found_my_duty_roster,
                   found_when, found_when_daytime, success, msg_in, calls,
                   invoked, claimers, other>>

\* The defaults had the test of line 566 been left out: "full" for every
\* command.
DefaultsAlwaysFull(f, fw, fwd, error) ==
    LET f1 == IF ~fw /\ ~error
              THEN [f EXCEPT !.when = "today", !.date_offset = 0] ELSE f
        f2 == IF ~fwd /\ ~error THEN [f1 EXCEPT !.when_daytime = "full"] ELSE f1
    IN  IF ~Truthy(f.what) /\ ~error THEN [f2 EXCEPT !.what = "wx"] ELSE f2

\* Lines 555-576: the defaults of the fields that are still unset.
Defaults(f, fw, fwd, error) ==
    LET f1 == IF ~fw /\ ~error
              THEN [f EXCEPT !.when = "today", !.date_offset = 0] ELSE f
        f2 == IF ~fwd /\ ~error
              THEN [f1 EXCEPT !.when_daytime =
                        IF f.what \in { "metar", "taf" } THEN "day" ELSE "full"]
              ELSE f1
    IN  IF ~Truthy(f.what) /\ ~error THEN [f2 EXCEPT !.what = "wx"] ELSE f2

\* The backfill had the default of what assigned whenever no error is set.
BackfillOverwritesWhat ==
    /\ pc = "backfill"
    /\ pc' = StepAfter(pc)
    /\ rp' = [Defaults(rp, found_when, found_when_daytime, err)
                 EXCEPT !.what = IF err THEN @ ELSE "wx"]
    /\ found_when' = (found_when \/ ~err)
    /\ found_when_daytime' = (found_when_daytime \/ ~err)
    /\ UNCHANGED <<aprs_message, users_callsign, found_my_duty_roster, err,
                   success, msg_in, calls, invoked, claimers, errors, other>>

\* The backfill had no default for what.
BackfillWithoutWhat ==
    /\ pc = "backfill"
    /\ pc' = StepAfter(pc)
    /\ rp' = [Defaults(rp, found_when, found_when_daytime, err)
                 EXCEPT !.what = rp.what]
    /\ found_when' = (found_when \/ ~err)
    /\ found_when_daytime' = (found_when_daytime \/ ~err)
    /\ UNCHANGED <<aprs_message, users_callsign, found_my_duty_roster, err,
                   success, msg_in, calls, invoked, claimers, errors, other>>

Backfill ==
    /\ pc = "backfill"
    /\ pc' = StepAfter(pc)
    /\ rp' = Defaults(rp, found_when, found_when_daytime, err)
    /\ found_when' = (found_when \/ ~err)
    /\ found_when_daytime' = (found_when_daytime \/ ~err)
    /\ UNCHANGED <<aprs_message, users_callsign, found_my_duty_roster, err,
                   success, msg_in, calls, invoked, claimers, errors, other>>

\* Lines 584-677: the sender's own position, when no rule has claimed the
\* text.  The second lookup is made for a sender with an SSID only:
\* r"^(([A-Z0-9]{1,3}[0123456789][A-Z0-9]{0,3})-([A-Z0-9]{1,2}))$".
\* matches[1], the whole callsign, in the place of matches[2].
WithoutSsidKeepsSsid(cs) == cs

WithoutSsid(cs) ==
    CASE cs = "DF1JSL-1" -> "DF1JSL"
      [] cs = "DF1ABC-1" -> "DF1ABC"
      [] OTHER           -> cs

\* The fields after a successful lookup of the callsign cs.
SenderFound(f, pos, rev) ==
    LET g == [f EXCEPT !.latitude = pos.latitude, !.longitude = pos.longitude,
                       !.message_callsign = pos.message_callsign,
                       !.human_readable_message = <<pos.message_callsign>>]
    IN  IF rev.success THEN WxAddress(g, rev.response_data, TRUE) ELSE g

sender_lookup(f, cs, s) ==
    LET pos1 == get_position_on_aprsfi(cs, s[1])
        c1 == Call("get_position_on_aprsfi", cs, s[1])
        rev1 == get_reverse_geopy_data(pos1.latitude, s[2])
        pos2 == get_position_on_aprsfi(WithoutSsid(cs), s[2])
        c2 == Call("get_position_on_aprsfi", WithoutSsid(cs), s[2])
        rev2 == get_reverse_geopy_data(pos2.latitude, s[3])
        lost1 == [f EXCEPT !.latitude = pos1.latitude,
                           !.longitude = pos1.longitude,
                           !.message_callsign = pos1.message_callsign]
        lost2 == [f EXCEPT !.latitude = pos2.latitude,
                           !.longitude = pos2.longitude,
                           !.message_callsign = pos2.message_callsign,
                           !.human_readable_message =
                               <<errmsg_cannot_find_coords_for_user>>]
    IN  IF ~Truthy(f.when)
        THEN [ found |-> FALSE, error |-> TRUE,
               fields |-> [f EXCEPT !.human_readable_message =
                              IF MsgTruthy(@) THEN @
                              ELSE <<errmsg_invalid_command>>],
               calls |-> <<>>, used |-> 0 ]
        ELSE IF pos1.success
        THEN [ found |-> TRUE, error |-> FALSE,
               fields |-> SenderFound(f, pos1, rev1),
               calls |-> <<c1, Call("get_reverse_geopy_data", pos1.latitude, s[2])>>,
               used |-> 2 ]
        ELSE IF cs \notin { "DF1JSL-1", "DF1ABC-1" }
        THEN [ found |-> FALSE, error |-> FALSE, fields |-> lost1,
               calls |-> <<c1>>, used |-> 1 ]
        ELSE IF pos2.success
        THEN [ found |-> TRUE, error |-> FALSE,
               fields |-> SenderFound(f, pos2, rev2),
               calls |-> <<c1, c2,
                           Call("get_reverse_geopy_data", pos2.latitude, s[3])>>,
               used |-> 3 ]
        ELSE [ found |-> FALSE, error |-> TRUE, fields |-> lost2,
               calls |-> <<c1, c2>>, used |-> 2 ]

SenderLookup ==
    /\ pc = "sender_lookup"
    /\ pc' = StepAfter(pc)
    /\ IF ChainOpen(found_my_duty_roster, err)
       THEN \E s \in Scripts(3) :
              LET r == sender_lookup(rp, users_callsign, s)
              IN  /\ Canonical(s, r.used)
                  /\ calls' = calls \o TagCalls(r.calls, "sender_lookup")
                  /\ rp' = r.fields
                  /\ found_my_duty_roster' = r.found
                  /\ err' = r.error
                  /\ claimers' = IF r.found THEN Append(claimers, "sender_lookup")
                                 ELSE claimers
                  /\ errors' = IF r.error THEN Append(errors, "sender_lookup")
                               ELSE errors
       ELSE UNCHANGED <<calls, rp, found_my_duty_roster, err, claimers, errors>>
    /\ UNCHANGED <<aprs_message, users_callsign, found_when,
                   found_when_daytime, success, msg_in, invoked, other>>

\* The return code had a claim been enough for it.
ReturnClaimWins ==
    /\ pc = "return"
    /\ pc' = "done"
    /\ success' = (~err \/ found_my_duty_roster)
    /\ UNCHANGED <<aprs_message, users_callsign, found_my_duty_roster, err,
                   found_when, found_when_daytime, rp, msg_in, calls, invoked,
                   claimers, errors, other>>

\* Lines 720-728.
Return ==
    /\ pc = "return"
    /\ pc' = StepAfter(pc)
    /\ success' = ~err
    /\ UNCHANGED <<aprs_message, users_callsign, found_my_duty_roster, err,
                   found_when, found_when_daytime, rp, msg_in, calls, invoked,
                   claimers, errors, other>>

Next ==
    \/ Units
    \/ Unicode
    \/ Language
    \/ NumberOfResults
    \/ Help
    \/ ParseWhen
    \/ ParseWhenDaytime
    \/ CallsignMulti
    \/ Whereami
    \/ CwopId
    \/ Satpass
    \/ Repeater
    \/ OsmCategory
    \/ Dapnet
    \/ Fortuneteller
    \/ EmailPositionReport
    \/ Metar
    \/ Wx
    \/ Validate
    \/ Backfill
    \/ SenderLookup
    \/ Return

Spec == Init /\ [][Next]_vars

\* The parser on the texts of up to CommandLen tokens over the station,
\* airport and repeater commands and the modifiers.
SpecCommands ==
    /\ InitWith(Texts({ "cwop", "abcd1", "taf", "eddf", "repeater", "c4fm",
                        "70cm", "metric", "lang", "de", "top3" }, CommandLen),
                {NoParse})
    /\ [][Next]_vars

\* The parser on the texts of up to WhenLen tokens over the words of
\* parse_when: one or two words of every kind of alternative.
SpecWhen ==
    /\ InitWith(Texts({ "tonight", "today", "tomorrow", "monday", "sun",
                        "now", "2d", "7d", "5h", "47h", "xy" }, WhenLen),
                {NoParse})
    /\ [][Next]_vars

\* The parser on the texts of up to AirportLen tokens over the airport
\* codes, their keywords, the comma of an address and a day.
SpecAirports ==
    /\ InitWith(Texts({ "icao", "iata", "eddf", "fra", ",", "metar",
                        "tomorrow" }, AirportLen), {NoParse})
    /\ [][Next]_vars

\* The texts of the weather rule: a city with state and country, postal
\* codes, grid locators, coordinates and callsigns.  A postal code is a
\* whole number of tokens here: the texts in which the pattern of the
\* unqualified code would start inside a token before the code ("4 12345"
\* in "1.2.3/4 12345; de") are left out.
SpecWx ==
    /\ InitWith({ m \in Texts({ "paris,", "ca;", "de", "zip", "12345",
                                "12345;", "grid", "jo41", "51.8/8.3",
                                "1.2.3/4", "df1abc-1", "df1abc" }, WxLen) :
                    \A j \in DOMAIN m : \A i \in 1..(j - 1) :
                        m[j] = "12345;" =>
                            m[i] \notin { "51.8/8.3", "1.2.3/4", "df1abc-1" } },
                {NoParse})
    /\ [][Next]_vars

\* The texts of the OSM category rule.
SpecOsm ==
    /\ InitWith(Texts({ "osm", "fuel", "police", "tomorrow", "xy" }, OsmLen),
                {NoParse})
    /\ [][Next]_vars

\* The texts of the paging rule: the keyword, a callsign with and without
\* an SSID, and a body of a word, a day and a unit.
SpecDapnet ==
    /\ InitWith(Texts({ "dapnet", "df1abc-1", "df1abc", "xy", "today",
                        "metric" }, DapnetLen), {NoParse})
    /\ [][Next]_vars

(***************************************************************************)
(* Two invocations of parse_input_message.  Every variable of the function *)
(* is a local variable (lines 78-119 and the assignments after them), so   *)
(* each invocation has its own: the variables of the module are those of   *)
(* the invocation that is running, other holds those of the invocation    *)
(* that is waiting, and a switch from the one to the other can take place  *)
(* between any two steps.                                                  *)
(***************************************************************************)
Locals ==
    [ pc |-> pc, aprs_message |-> aprs_message,
      users_callsign |-> users_callsign,
      found_my_duty_roster |-> found_my_duty_roster, err |-> err,
      found_when |-> found_when, found_when_daytime |-> found_when_daytime,
      rp |-> rp, success |-> success, msg_in |-> msg_in, calls |-> calls,
      invoked |-> invoked, claimers |-> claimers, errors |-> errors ]

\* The error flag had it been a variable of the module, which the two
\* invocations share.
SwitchSharingErr ==
    /\ other # NoParse
    /\ pc' = other.pc
    /\ aprs_message' = other.aprs_message
    /\ users_callsign' = other.users_callsign
    /\ found_my_duty_roster' = other.found_my_duty_roster
    /\ err' = err
    /\ found_when' = other.found_when
    /\ found_when_daytime' = other.found_when_daytime
    /\ rp' = other.rp
    /\ success' = other.success
    /\ msg_in' = other.msg_in
    /\ calls' = other.calls
    /\ invoked' = other.invoked
    /\ claimers' = other.claimers
    /\ errors' = other.errors
    /\ other' = Locals

Switch ==
    /\ other # NoParse
    /\ pc' = other.pc
    /\ aprs_message' = other.aprs_message
    /\ users_callsign' = other.users_callsign
    /\ found_my_duty_roster' = other.found_my_duty_roster
    /\ err' = other.err
    /\ found_when' = other.found_when
    /\ found_when_daytime' = other.found_when_daytime
    /\ rp' = other.rp
    /\ success' = other.success
    /\ msg_in' = other.msg_in
    /\ calls' = other.calls
    /\ invoked' = other.invoked
    /\ claimers' = other.claimers
    /\ errors' = other.errors
    /\ other' = Locals

\* Two invocations on the texts of up to TwoLen tokens over a day and an
\* unknown word, interleaved step by step.
SpecTwo ==
    /\ InitWith(Texts({ "tomorrow", "xy" }, TwoLen),
                { [ pc |-> "units", aprs_message |-> m, users_callsign |-> c,
                    found_my_duty_roster |-> FALSE, err |-> FALSE,
                    found_when |-> FALSE, found_when_daytime |-> FALSE,
                    rp |-> InitialFields, success |-> FALSE, msg_in |-> m,
                    calls |-> <<>>, invoked |-> <<>>, claimers |-> <<>>,
                    errors |-> <<>> ] :
                    m \in Texts({ "tomorrow", "xy" }, TwoLen), c \in Senders })
    /\ [][Next \/ Switch]_vars

(***************************************************************************)
(* build_human_readable_address_message on its own: the address fields    *)
(* are any combination of absent and present values, and the one step      *)
(* stores the message that the function returns for them.                  *)
(***************************************************************************)
InitAddress ==
    /\ pc = "address"
    /\ \E city \in { NoMsg, <<"City">> }, state \in { None, "", "CA" },
          zipcode \in { NoMsg, <<"12345">> }, county \in { None, "County" },
          country_code \in { None, "US", "DE" } :
            rp = [InitialFields EXCEPT !.city = city, !.state = state,
                                       !.zipcode = zipcode, !.county = county,
                                       !.country_code = country_code]
    /\ msg_in = <<>>
    /\ aprs_message = <<>>
    /\ users_callsign \in Senders
    /\ found_my_duty_roster = FALSE
    /\ err = FALSE
    /\ found_when = FALSE
    /\ found_when_daytime = FALSE
    /\ success = FALSE
    /\ calls = <<>>
    /\ invoked = <<>>
    /\ claimers = <<>>
    /\ errors = <<>>
    /\ other = NoParse

BuildAddress ==
    /\ pc = "address"
    /\ pc' = "done"
    /\ rp' = [rp EXCEPT !.human_readable_message =
                            build_human_readable_address_message(rp)]
    /\ UNCHANGED <<aprs_message, users_callsign, found_my_duty_roster, err,
                   found_when, found_when_daytime, success, msg_in, calls,
                   invoked, claimers, errors, other>>

SpecAddress == InitAddress /\ [][BuildAddress]_vars

(***************************************************************************)
(* Properties of parse_input_message.                                      *)
(***************************************************************************)
IsPrefix(a, b) == Len(a) <= Len(b) /\ a = SubSeq(b, 1, Len(a))

Done == pc = "done"

\* C1: in every run the claim flag goes from false to true at most once:
\* of the help rule, the eleven keyword handlers and the implicit sender
\* lookup, at most one sets it, and it is set exactly when one of them did.
C1_ClaimedAtMostOnce ==
    /\ Len(claimers) <= 1
    /\ found_my_duty_roster <=> claimers # <<>>

\* A finished run in which whereami has claimed a text that the OSM rule
\* would claim as well.
C1_Witness ==
    /\ Done
    /\ msg_in = <<"whereami", "police">>
    /\ claimers = <<"whereami">>
    /\ aprs_message = <<"police">>

\* C2: the claim flag and the error flag are monotonic: no step of the
\* pipeline sets either of them back to false.
C2_FlagsMonotonic ==
    [][ /\ found_my_duty_roster => found_my_duty_roster'
        /\ err => err' ]_vars

\* A finished run in which both flags were set by the second rule and every
\* later step has run.
C2_Witness ==
    /\ Done
    /\ found_my_duty_roster /\ err
    /\ claimers = <<"callsign_multi">> /\ errors = <<"callsign_multi">>

\* C3: the rules are invoked in the order help, call-sign multi-command,
\* whereami, CWOP by id, satellite pass, repeater, OSM category, paging
\* message, fortune, email position report, METAR/TAF, weather fallback;
\* once the claim flag or the error flag is set, no further rule is invoked,
\* no further text is consumed and no further collaborator call is made.
C3_OrderAndHalt ==
    [][ /\ IsPrefix(invoked', RuleOrder)
        /\ (found_my_duty_roster \/ err) =>
               /\ invoked' = invoked
               /\ aprs_message' = aprs_message
               /\ calls' = calls ]_vars

\* A finished run that the repeater rule has claimed: six rules were invoked,
\* and the text left over names a category of the OSM rule.
C3_Witness ==
    /\ Done
    /\ claimers = <<"repeater">>
    /\ invoked = SubSeq(RuleOrder, 1, 6)
    /\ aprs_message = <<"police">>
    /\ Len(calls) = 1

AfterValidate == pc \in { "backfill", "sender_lookup", "return", "done" }

CallsBy(name) == { i \in DOMAIN calls : calls[i].by = name }

FailedCallsBy(name) == { i \in CallsBy(name) : ~calls[i].ok }

\* C4: whenever a rule has matched and one of its collaborator calls has
\* failed (position lookup of the target or of the sender, forward or reverse
\* geocoding, nearest airport, airport validation), the parse ends with
\* success = false: no rule returns a successful claim with the failed call
\* ignored.
C4_FailedCallFailsParse ==
    Done =>
      \A k \in DOMAIN RuleOrder :
         (claimers = <<RuleOrder[k]>> /\ FailedCallsBy(RuleOrder[k]) # {})
            => ~success

\* The call-sign rule has claimed "metar df1abc", the position of DF1ABC was
\* found, no airport is near it, and the parse has succeeded without an
\* airport and without a message.
C4_Witness ==
    /\ Done
    /\ msg_in = <<"metar", "df1abc">>
    /\ claimers = <<"callsign_multi">>
    /\ \E i \in FailedCallsBy("callsign_multi") :
          calls[i].fn = "get_nearest_icao"
    /\ success
    /\ rp.what = "metar" /\ rp.icao = None
    /\ ~MsgTruthy(rp.human_readable_message)

\* C5: when a rule reports an error, or the validator or the implicit
\* sender lookup detects one, the returned success flag is false, also when
\* the same rule has reported a match; the flag is true only when no error
\* was raised anywhere in the parse.
C5_SuccessIffNoError == Done => (success <=> errors = <<>>)

\* A finished run in which one rule has reported both a match and an error,
\* and has set an intent.
C5_Witness ==
    /\ Done
    /\ \E k \in DOMAIN RuleOrder :
          claimers = <<RuleOrder[k]>> /\ errors = <<RuleOrder[k]>>
    /\ Truthy(rp.what)
    /\ ~success

\* C6: when the implicit lookup of the sender's position is made and finds
\* no position, neither for the full callsign nor for the callsign without
\* its SSID, the result is success = false with the message "Cannot find
\* coordinates for callsign", for a sender with and without an SSID.
C6_UnresolvedSenderFails ==
    ( /\ Done
      /\ CallsBy("sender_lookup") # {}
      /\ \A i \in CallsBy("sender_lookup") :
            calls[i].fn = "get_position_on_aprsfi" => ~calls[i].ok )
    => /\ ~success
       /\ rp.human_readable_message = <<errmsg_cannot_find_coords_for_user>>

\* The sender W1AW, who has no SSID, has sent "tomorrow"; the one lookup of
\* the position has failed and the parse has succeeded with no position.
C6_Witness ==
    /\ Done
    /\ users_callsign = "W1AW"
    /\ msg_in = <<"tomorrow">>
    /\ CallsBy("sender_lookup") = { 1 } /\ FailedCallsBy("sender_lookup") = { 1 }
    /\ success
    /\ rp.what = "wx" /\ rp.latitude = NoPosition

\* C7: an empty command text yields success = false with the message
\* "Unknown command", for every sender: no position is looked up, and what,
\* when and when_daytime stay unset, with date_offset -1.
C7_EmptyCommandIsInvalid ==
    (Done /\ msg_in = <<>>) =>
       /\ ~success
       /\ rp.human_readable_message = <<errmsg_invalid_command>>
       /\ calls = <<>>
       /\ ~Truthy(rp.what) /\ ~Truthy(rp.when) /\ ~Truthy(rp.when_daytime)
       /\ rp.date_offset = -1

\* A finished run for the empty text, with the validator's error.
C7_Witness ==
    /\ Done
    /\ msg_in = <<>>
    /\ errors = <<"validate">>
    /\ invoked = RuleOrder

\* C7 as stated: an empty command text of a sender whose position can be
\* resolved (no lookup of a position fails) yields success = true with
\* what = wx, when = today, date_offset = 0 and when_daytime = full.
C7_EmptyCommandIsWeather ==
    ( /\ Done
      /\ msg_in = <<>>
      /\ \A i \in DOMAIN calls :
            calls[i].fn = "get_position_on_aprsfi" => calls[i].ok )
    => /\ success
       /\ rp.what = "wx" /\ rp.when = "today" /\ rp.date_offset = 0
       /\ rp.when_daytime = "full"

\* C8: when the chain has finished with what, when and when_daytime all
\* unset, the result is success = false, with the message "Unknown command"
\* unless a rule has reported an error of its own before, and the implicit
\* sender lookup makes no call.
C8_NothingFoundIsInvalid ==
    ( /\ AfterValidate
      /\ ~Truthy(rp.what) /\ ~Truthy(rp.when) /\ ~Truthy(rp.when_daytime) )
    => /\ err
       /\ errors # <<>>
       /\ errors[1] = "validate" =>
             rp.human_readable_message = <<errmsg_invalid_command>>
       /\ CallsBy("sender_lookup") = {}
       /\ Done => ~success

\* A finished run for a text that no rule and no extractor knows.
C8_Witness ==
    /\ Done
    /\ msg_in = <<"xy">>
    /\ aprs_message = <<"xy">>
    /\ invoked = RuleOrder
    /\ errors = <<"validate">>
    /\ ~success

\* C9: when a when or a when_daytime value was found, no rule has set what,
\* and text is left after all extraction, the result is success = false with
\* the message "Unknown command": what gets no default and the implicit
\* sender lookup makes no call.
C9_GarbageIsInvalid ==
    ( /\ AfterValidate
      /\ Truthy(rp.when) \/ Truthy(rp.when_daytime)
      /\ ~Truthy(rp.what)
      /\ aprs_message # <<>> )
    => /\ err
       /\ rp.human_readable_message = <<errmsg_invalid_command>>
       /\ CallsBy("sender_lookup") = {}
       /\ Done => ~success

\* A finished run for a daytime followed by an unknown word.
C9_Witness ==
    /\ Done
    /\ msg_in = <<"night", "xy">>
    /\ rp.when_daytime = "night" /\ ~Truthy(rp.when)
    /\ aprs_message = <<"xy">>
    /\ ~success

\* C10: without an error the backfill fills exactly the unset fields: when
\* becomes today with date_offset 0, when_daytime becomes day for metar and
\* taf and full otherwise, what becomes wx, and every value that is set stays
\* as it is; with an error the backfill changes nothing; every result with
\* success = true has what, when and when_daytime set.
C10_BackfillFillsUnset ==
    [][ /\ pc = "backfill" =>
             rp' = IF err THEN rp
                   ELSE [rp EXCEPT
                           !.when = IF Truthy(@) THEN @ ELSE "today",
                           !.date_offset = IF Truthy(rp.when) THEN @ ELSE 0,
                           !.when_daytime =
                               IF Truthy(@) THEN @
                               ELSE IF rp.what \in { "metar", "taf" }
                                    THEN "day" ELSE "full",
                           !.what = IF Truthy(@) THEN @ ELSE "wx"]
        /\ success' =>
             Truthy(rp'.what) /\ Truthy(rp'.when) /\ Truthy(rp'.when_daytime)
      ]_vars

\* A successful run for "tomorrow eddf": the extractor's when is kept, and
\* the daytime of a METAR request is filled in.
C10_Witness ==
    /\ Done
    /\ success
    /\ msg_in = <<"tomorrow", "eddf">>
    /\ rp.what = "metar"
    /\ rp.when = "tomorrow" /\ rp.date_offset = 1
    /\ rp.when_daytime = "day"

\* C11: when the call-sign rule has matched its keyword and the lookup of the
\* target's position fails, the rule reports an error: the parse ends with
\* success = false and the message "Cannot find coordinates for callsign",
\* no further call is made, and neither a later rule nor the implicit sender
\* lookup runs.
C11_TargetLookupFailureHalts ==
    ( /\ calls # <<>>
      /\ calls[1].by = "callsign_multi"
      /\ ~calls[1].ok )
    => /\ calls[1].fn = "get_position_on_aprsfi"
       /\ Len(calls) = 1
       /\ err /\ errors = <<"callsign_multi">>
       /\ invoked = SubSeq(RuleOrder, 1, 2)
       /\ Len(rp.human_readable_message) = 2
       /\ rp.human_readable_message[1] = errmsg_cannot_find_coords_for_user
       /\ Done => ~success

\* A finished run for "whereis df1abc" in which the position of DF1ABC was
\* not found.
C11_Witness ==
    /\ Done
    /\ msg_in = <<"whereis", "df1abc">>
    /\ Len(calls) = 1
    /\ calls[1].fn = "get_position_on_aprsfi" /\ calls[1].arg = "DF1ABC"
    /\ ~calls[1].ok
    /\ rp.what = "whereis"
    /\ ~success

\* C12: the command "cwop abcd1" is claimed by the CWOP-by-id rule: the
\* result has what = cwop_by_cwop_id, cwop_id = ABCD1 and success = true,
\* whatever a lookup of a position returns.
C12_CwopIdClaimedById ==
    (Done /\ msg_in = <<"cwop", "abcd1">>) =>
       /\ claimers = <<"cwop_id">>
       /\ rp.what = "cwop_by_cwop_id"
       /\ rp.cwop_id = "ABCD1"
       /\ success

\* "cwop abcd1" was claimed by the call-sign rule, which took ABCD1 for a
\* callsign and found its position: the CWOP-by-id rule was not invoked and
\* no station id is set.
C12_Witness ==
    /\ Done
    /\ msg_in = <<"cwop", "abcd1">>
    /\ claimers = <<"callsign_multi">>
    /\ invoked = SubSeq(RuleOrder, 1, 2)
    /\ calls # <<>> /\ calls[1].arg = "ABCD1" /\ calls[1].ok
    /\ rp.what = "cwop_by_latlon" /\ rp.cwop_id = None
    /\ rp.message_callsign = "ABCD1"
    /\ success

\* C13: the command "cwop" with no station id ends with success = false and
\* the message "No cwop id specified".
C13_BareCwopIsMissingParameter ==
    (Done /\ msg_in = <<"cwop">>) =>
       /\ ~success
       /\ rp.human_readable_message = <<"No cwop id specified">>

\* "cwop" alone was claimed by the call-sign rule for the sender's own
\* position, and the parse has succeeded.
C13_Witness ==
    /\ Done
    /\ msg_in = <<"cwop">>
    /\ claimers = <<"callsign_multi">>
    /\ rp.what = "cwop_by_latlon"
    /\ rp.message_callsign = users_callsign
    /\ rp.human_readable_message = <<"CWOP for", users_callsign>>
    /\ success

\* C14: the command "taf eddf" is resolved by validating the airport code
\* EDDF and by no lookup of a position: a successful result has either
\* what = taf with icao = EDDF, or what = wx with no icao, and the parse
\* fails only when the validation of EDDF fails.
C14_TafByAirportCode ==
    (Done /\ msg_in = <<"taf", "eddf">>) =>
       /\ \A i \in DOMAIN calls : calls[i].fn # "get_position_on_aprsfi"
       /\ \E i \in DOMAIN calls :
             calls[i].fn = "validate_icao" /\ calls[i].arg = "EDDF"
       /\ success =>
             \/ rp.what = "taf" /\ rp.icao = "EDDF"
             \/ rp.what = "wx" /\ rp.icao = None
       /\ ~success =>
             \E i \in DOMAIN calls : calls[i].fn = "validate_icao" /\ ~calls[i].ok

\* "taf eddf" was claimed by the call-sign rule, which looked up the position
\* of a callsign EDDF; the lookup failed and so did the parse, without any
\* validation of an airport code.
C14_Witness ==
    /\ Done
    /\ msg_in = <<"taf", "eddf">>
    /\ claimers = <<"callsign_multi">>
    /\ Len(calls) = 1
    /\ calls[1].fn = "get_position_on_aprsfi" /\ calls[1].arg = "EDDF"
    /\ ~calls[1].ok
    /\ rp.what = "taf" /\ rp.icao = None
    /\ ~success

\* C15: the command "whereami" makes the whereami rule look up the sender's
\* position.  When the position is found the result is success = true with
\* what = whereis, the sender's callsign as message_callsign, and
\* users_latitude and users_longitude equal to latitude and longitude,
\* whether or not the reverse geocoding of the position succeeds; when it is
\* not found the result is success = false.
C15_WhereamiIsSendersPosition ==
    /\ (AfterValidate /\ msg_in = <<"whereami">>) =>
           calls # <<>> /\ calls[1].by = "whereami"
    /\ (Done /\ calls # <<>> /\ calls[1].by = "whereami") =>
          /\ calls[1].fn = "get_position_on_aprsfi"
          /\ calls[1].arg = users_callsign
          /\ IF calls[1].ok
             THEN /\ success
                  /\ rp.what = "whereis"
                  /\ rp.message_callsign = users_callsign
                  /\ rp.latitude # NoPosition /\ rp.longitude # NoPosition
                  /\ rp.users_latitude = rp.latitude
                  /\ rp.users_longitude = rp.longitude
             ELSE ~success

\* A successful run for "whereami" in which the sender's position was found
\* and its reverse geocoding has failed.
C15_Witness ==
    /\ Done
    /\ msg_in = <<"whereami">>
    /\ Len(calls) = 2
    /\ calls[1].ok
    /\ calls[2].fn = "get_reverse_geopy_data" /\ ~calls[2].ok
    /\ rp.what = "whereis"
    /\ rp.users_latitude = rp.latitude
    /\ success

\* C16: when the repeater rule runs on a text with its keyword, the most
\* specific pattern that matches decides the result: mode and band when the
\* keyword is followed by both in either order, else the mode alone, else
\* the band alone, else neither; "repeater c4fm 70cm" gives the mode C4FM
\* and the band 70cm.  what becomes repeater, the sender's position is
\* looked up exactly once, and the rule reports an error exactly when that
\* lookup fails, which ends the parse with success = false.
C16_RepeaterFirstTierWins ==
    [][ /\ ( /\ pc = "repeater"
             /\ ChainOpen(found_my_duty_roster, err)
             /\ HasTok(aprs_message, RepeaterWords) )
           => LET m == aprs_message
                  both == \/ HasPat(m, << RepeaterWords, RepeaterModes, RepeaterBands >>)
                          \/ HasPat(m, << RepeaterWords, RepeaterBands, RepeaterModes >>)
                  mode == HasPat(m, << RepeaterWords, RepeaterModes >>)
                  band == HasPat(m, << RepeaterWords, RepeaterBands >>)
                  modes == { Upper(x) : x \in RepeaterModes }
                  n == Len(calls')
              IN  /\ rp'.what = "repeater"
                  /\ claimers' = <<"repeater">>
                  /\ both => /\ rp'.repeater_mode \in modes
                              /\ rp'.repeater_band \in RepeaterBands
                  /\ (~both /\ mode) =>
                         /\ rp'.repeater_mode \in modes
                         /\ rp'.repeater_band = None
                  /\ (~both /\ ~mode /\ band) =>
                         /\ rp'.repeater_mode = None
                         /\ rp'.repeater_band \in RepeaterBands
                  /\ (~both /\ ~mode /\ ~band) =>
                         /\ rp'.repeater_mode = None
                         /\ rp'.repeater_band = None
                  /\ m = <<"repeater", "c4fm", "70cm">> =>
                         /\ rp'.repeater_mode = "C4FM"
                         /\ rp'.repeater_band = "70cm"
                  /\ n = Len(calls) + 1
                  /\ calls'[n].fn = "get_position_on_aprsfi"
                  /\ calls'[n].arg = users_callsign
                  /\ err' = ~calls'[n].ok
        /\ (pc = "return" /\ "repeater" \in Range(errors)) => ~success'
      ]_vars

\* A successful run for "repeater c4fm 70cm": the sender's position is the
\* only call.
C16_Witness ==
    /\ Done
    /\ msg_in = <<"repeater", "c4fm", "70cm">>
    /\ claimers = <<"repeater">>
    /\ rp.what = "repeater"
    /\ rp.repeater_mode = "C4FM" /\ rp.repeater_band = "70cm"
    /\ Len(calls) = 1 /\ calls[1].ok
    /\ success

\* C17: the command "tomorrow" alone, of a sender whose position is found
\* (for the full callsign, or for the callsign without its SSID), gives
\* when = tomorrow, date_offset = 1, what = wx, when_daytime = full and
\* success = true, and the target callsign and position are those found for
\* the sender.
C17_TomorrowAloneIsWeather ==
    \A i \in DOMAIN calls :
       ( /\ Done
         /\ msg_in = <<"tomorrow">>
         /\ calls[i].fn = "get_position_on_aprsfi" /\ calls[i].ok )
       => /\ rp.when = "tomorrow" /\ rp.date_offset = 1
          /\ rp.what = "wx"
          /\ rp.when_daytime = "full"
          /\ success
          /\ calls[i].by = "sender_lookup"
          /\ calls[i].arg \in { users_callsign, WithoutSsid(users_callsign) }
          /\ rp.message_callsign = calls[i].arg
          /\ rp.latitude # NoPosition /\ rp.longitude # NoPosition

\* A successful run for "tomorrow" of the sender DF1JSL-1, whose position
\* was found at once.
C17_Witness ==
    /\ Done
    /\ msg_in = <<"tomorrow">>
    /\ users_callsign = "DF1JSL-1"
    /\ calls # <<>> /\ calls[1].ok
    /\ claimers = <<"sender_lookup">>
    /\ rp.when = "tomorrow" /\ rp.what = "wx" /\ rp.when_daytime = "full"
    /\ rp.message_callsign = "DF1JSL-1"
    /\ success

\* The number of characters of a text, blanks not counted.
RECURSIVE TextChars(_)
TextChars(m) ==
    IF m = <<>> THEN 0
    ELSE Chars(Head(m)) + TextChars(Tail(m))

\* C18: no step of the pipeline makes the remaining command text longer:
\* after every modifier extractor, temporal extractor and rule the text has
\* at most the characters and at most the tokens it had before.  A step
\* that finds none of its words, and a rule that reports neither a match
\* nor an error, leaves the text as it is, and so does every step after the
\* rules.
C18_TextShrinks ==
    [][ /\ TextChars(aprs_message') <= TextChars(aprs_message)
        /\ Len(aprs_message') <= Len(aprs_message)
        /\ \A i \in DOMAIN aprs_message' : TextChars(<<aprs_message'[i]>>) > 0
        /\ ( \/ pc = "units"
                 /\ ~HasTok(aprs_message, MetricWords \cup ImperialWords)
             \/ pc = "unicode" /\ ~HasTok(aprs_message, { "unicode" })
             \/ pc = "language" /\ ~HasTok(aprs_message, LanguageWords)
             \/ pc = "number_of_results" /\ ~HasTok(aprs_message, TopWords)
             \/ pc = "when" /\ found_when' = found_when
             \/ pc = "when_daytime" /\ found_when_daytime' = found_when_daytime
             \/ pc \in Range(RuleOrder)
                 /\ claimers' = claimers /\ errors' = errors
             \/ AfterValidate \/ pc = "validate" )
           => aprs_message' = aprs_message
      ]_vars

\* A finished run for "imp tomorrow": both words were removed, one by the
\* units extractor and one by the temporal extractor.
C18_Witness ==
    /\ Done
    /\ msg_in = <<"imp", "tomorrow">>
    /\ aprs_message = <<>>
    /\ rp.units = "imperial" /\ rp.when = "tomorrow"

\* C19: once what is set, no step changes it and no further rule is
\* invoked: the backfill assigns what only while it is unset.  A METAR or
\* TAF request that ends as wx was turned into wx by the rule that claimed
\* it, in the step that set what.
C19_WhatIsWrittenOnce ==
    [][ /\ Truthy(rp.what) =>
             /\ rp'.what = rp.what
             /\ invoked' = invoked
        /\ (~Truthy(rp.what) /\ Truthy(rp'.what)) =>
             \/ /\ pc \in Range(RuleOrder)
                /\ found_my_duty_roster' \/ err'
                /\ invoked' = Append(invoked, pc)
             \/ /\ pc = "backfill"
                /\ ~err
                /\ rp'.what = "wx"
      ]_vars

\* A finished run for "metar df1abc": the call-sign rule has found an airport
\* that has no METAR data and has set what to wx itself; the backfill has
\* filled in the rest.
C19_Witness ==
    /\ Done
    /\ msg_in = <<"metar", "df1abc">>
    /\ claimers = <<"callsign_multi">>
    /\ rp.what = "wx" /\ rp.icao = None
    /\ rp.human_readable_message = <<"Wx", "for", None>>
    /\ rp.when = "today" /\ rp.when_daytime = "full"
    /\ success

\* A command text made of modifier words only: units, unicode, a result
\* count, or a language keyword with its two-letter code.
ModifiersOnly(m) ==
    /\ m # <<>>
    /\ \A i \in DOMAIN m :
          \/ m[i] \in MetricWords \cup ImperialWords \cup { "unicode" } \cup TopWords
          \/ /\ m[i] \in LanguageWords
             /\ i < Len(m)
             /\ m[i + 1] \in TwoLetters
          \/ /\ m[i] \in TwoLetters
             /\ i > 1
             /\ m[i - 1] \in LanguageWords

\* C20: the four modifier extractors (units, unicode, language, result
\* count) change nothing but their own field and the text: the claim flag,
\* the error flag, what and every other field stay as they are, and no
\* call is made and no rule is invoked.  A command of modifier words only
\* therefore ends with success = false and the message "Unknown command".
C20_ModifiersDoNotClaim ==
    [][ /\ pc \in { "units", "unicode", "language", "number_of_results" } =>
             /\ found_my_duty_roster' = found_my_duty_roster
             /\ err' = err
             /\ claimers' = claimers /\ errors' = errors
             /\ calls' = calls /\ invoked' = invoked
             /\ found_when' = found_when
             /\ found_when_daytime' = found_when_daytime
             /\ rp'.what = rp.what
             /\ rp' = [rp EXCEPT
                         ![CASE pc = "units" -> "units"
                             [] pc = "unicode" -> "force_outgoing_unicode_messages"
                             [] pc = "language" -> "language"
                             [] pc = "number_of_results" -> "number_of_results"]
                           = rp'[CASE pc = "units" -> "units"
                                   [] pc = "unicode" -> "force_outgoing_unicode_messages"
                                   [] pc = "language" -> "language"
                                   [] pc = "number_of_results" -> "number_of_results"]]
        /\ (pc = "return" /\ ModifiersOnly(msg_in)) =>
             /\ ~success'
             /\ aprs_message = <<>>
             /\ rp.human_readable_message = <<errmsg_invalid_command>>
             /\ ~Truthy(rp.what)
             /\ claimers = <<>> /\ calls = <<>>
      ]_vars

\* A finished run for "lang de top3": the language and the result count are
\* set, the text is used up, and the validator has rejected the command.
C20_Witness ==
    /\ Done
    /\ msg_in = <<"lang", "de", "top3">>
    /\ rp.language = "de" /\ rp.number_of_results = 3
    /\ aprs_message = <<>>
    /\ errors = <<"validate">>
    /\ rp.human_readable_message = <<errmsg_invalid_command>>
    /\ ~success

\* C21: the help rule sets what = help exactly when the text that is left
\* after the modifier extractors is the single word help or info; it runs
\* before the temporal extractors, removes no text and makes no call.  No
\* other step sets what = help, and a help claim ends with success = true,
\* with no call made and no other rule invoked.
C21_HelpIsWholeText ==
    [][ /\ pc = "help" =>
             /\ ~found_when /\ ~found_when_daytime
             /\ ~Truthy(rp.when) /\ ~Truthy(rp.when_daytime)
             /\ (rp'.what = "help") <=>
                    (aprs_message \in { <<"help">>, <<"info">> })
             /\ (claimers' = <<"help">>) <=> (rp'.what = "help")
             /\ aprs_message' = aprs_message
             /\ calls' = calls
        /\ rp'.what = "help" => (pc = "help" \/ rp.what = "help")
        /\ (pc = "return" /\ rp.what = "help") =>
             /\ success'
             /\ calls = <<>>
             /\ invoked = <<"help">>
             /\ aprs_message \in { <<"help">>, <<"info">> }
      ]_vars

\* A successful run for "imp help": the units extractor has removed its
\* word and the help rule has claimed the rest, which is still there.
C21_Witness ==
    /\ Done
    /\ msg_in = <<"imp", "help">>
    /\ claimers = <<"help">>
    /\ rp.what = "help" /\ rp.units = "imperial"
    /\ aprs_message = <<"help">>
    /\ calls = <<>>
    /\ success

\* C22: one invocation of parse_when or of parse_when_daytime removes at
\* most one word of the text: where the word that decided, or a synonym of
\* it, stands more than once, the further occurrences stay in the text.  An
\* invocation that finds nothing leaves the text as it is.
C22_OneSpanPerInvocation ==
    [][ /\ pc = "when" =>
             /\ Len(aprs_message) - Len(aprs_message') <= 1
             /\ found_when' = found_when => aprs_message' = aprs_message
        /\ pc = "when_daytime" =>
             /\ Len(aprs_message) - Len(aprs_message') <= 1
             /\ found_when_daytime' = found_when_daytime =>
                  aprs_message' = aprs_message
      ]_vars

\* A finished run for "tomorrow tomorrow": both occurrences were removed by
\* the one invocation of parse_when, nothing is left and the run succeeds.
C22_Witness ==
    /\ Done
    /\ msg_in = <<"tomorrow", "tomorrow">>
    /\ aprs_message = <<>>
    /\ rp.when = "tomorrow" /\ rp.date_offset = 1
    /\ rp.what = "wx"
    /\ success

\* The alternatives of parse_when in the order in which it tries them, and
\* the value of when that each of the first eleven gives.
C23_Alternatives ==
    << { "tonite", "tonight" }, { "today" }, { "tomorrow" },
       { "monday", "mon" }, { "tuesday", "tue" }, { "wednesday", "wed" },
       { "thursday", "thu" }, { "friday", "fri" }, { "saturday", "sat" },
       { "sunday", "sun" }, { "current", "now" },
       { "1d", "2d", "3d", "4d", "5d", "6d", "7d" }, Range(HourTokens) >>
C23_WhenOf ==
    << "today", "today", "tomorrow", "monday", "tuesday", "wednesday",
       "thursday", "friday", "saturday", "sunday", "now" >>

\* C23: parse_when decides by the first alternative, in the order tonight,
\* today, tomorrow, Monday to Sunday, now, Nd, Nh, of which a word stands
\* anywhere in the text, wherever the words of the later alternatives
\* stand; the words of the later alternatives stay in the text.  The date
\* offset is 0 for tonight, today and now, 1 for tomorrow, N for Nd and a
\* number of 1..7 for a weekday, which is the number of days from today to
\* the next such weekday and 7 when that weekday is today.
C23_FirstAlternativeInFixedOrder ==
    [][ /\ \A w, t \in 0..6 :
             /\ getdaysuntil(w, t) \in 1..7
             /\ (t + getdaysuntil(w, t)) % 7 = w
             /\ w = t => getdaysuntil(w, t) = 7
        /\ (pc = "when" /\ ~found_my_duty_roster /\ ~err) =>
             LET hit == { i \in DOMAIN C23_Alternatives :
                            \E k \in DOMAIN aprs_message :
                                aprs_message[k] \in C23_Alternatives[i] }
             IN  IF hit = {}
                 THEN /\ ~found_when' /\ rp'.when = None
                      /\ rp'.date_offset = -1 /\ rp'.hour_offset = -1
                      /\ aprs_message' = aprs_message
                 ELSE LET i == CHOOSE k \in hit : \A j \in hit : k <= j
                      IN  /\ found_when'
                          /\ \A k \in DOMAIN aprs_message' :
                                 aprs_message'[k] \notin C23_Alternatives[i]
                          /\ \A j \in hit \ {i} :
                                 \E k \in DOMAIN aprs_message' :
                                     aprs_message'[k] \in C23_Alternatives[j]
                          /\ i <= 11 => rp'.when = C23_WhenOf[i]
                          /\ i \in {1, 2, 11} => rp'.date_offset = 0
                          /\ i = 3 => rp'.date_offset = 1
                          /\ i \in 4..10 => rp'.date_offset \in 1..7
                          /\ i = 12 =>
                               /\ rp'.when \in Range(aprs_message)
                               /\ rp'.date_offset \in 1..7
                               /\ DayTokens[rp'.date_offset] = rp'.when
                          /\ i = 13 =>
                               /\ rp'.when = "hour"
                               /\ rp'.date_offset = -1
                               /\ rp'.hour_offset \in 1..47
                               /\ HourTokens[rp'.hour_offset]
                                      \in Range(aprs_message)
                          /\ i # 13 => rp'.hour_offset = -1
      ]_vars

\* A finished run for "monday tonight": tonight, the second word, decided,
\* and monday was left in the text, which makes the command invalid.
C23_Witness ==
    /\ Done
    /\ msg_in = <<"monday", "tonight">>
    /\ rp.when = "today" /\ rp.date_offset = 0
    /\ aprs_message = <<"monday">>
    /\ ~success

\* The collaborator calls that the step from the current state makes.
NewCalls == SubSeq(calls', Len(calls) + 1, Len(calls'))

\* The text holds "icao" before a four-character code or "iata" before a
\* three-character code.
QualifiedCode(m) ==
    \E k \in 1..(Len(m) - 1) :
        \/ m[k] = "icao" /\ m[k + 1] \in Alnum4
        \/ m[k] = "iata" /\ m[k + 1] \in Alnum3

\* C24: in the METAR rule a code that follows "icao" or "iata" and is not
\* a known airport is an error that ends the parse: the rule makes this one
\* call and sets the error with the message that the airport cannot be
\* located, no later rule is invoked nor a call made, and the parse returns
\* success = false with that message.  A code without a keyword that is not
\* a known airport is no error: the rule goes on to its following patterns
\* (the three-character code after the four-character code), and when none
\* of them claims, text and fields are as before and the weather rule is
\* invoked.
C24_ExplicitCodeFailureIsError ==
    [][ /\ (pc = "metar" /\ ~found_my_duty_roster /\ ~err) =>
             /\ invoked' = Append(invoked, "metar")
             /\ QualifiedCode(aprs_message) =>
                  /\ Len(NewCalls) = 1
                  /\ NewCalls[1].fn \in { "validate_icao", "validate_iata" }
                  /\ err' = ~NewCalls[1].ok
                  /\ found_my_duty_roster' = NewCalls[1].ok
                  /\ ~NewCalls[1].ok =>
                       /\ errors' = Append(errors, "metar")
                       /\ claimers' = claimers
                       /\ rp'.what = None
                       /\ rp'.human_readable_message[1] \in
                              { "Cannot locate airport ICAO code",
                                "Cannot locate airport IATA code" }
             /\ ~QualifiedCode(aprs_message) =>
                  /\ ~err' /\ errors' = errors
                  /\ claimers' = claimers =>
                       /\ aprs_message' = aprs_message
                       /\ rp' = rp
                       /\ ~found_my_duty_roster'
                  /\ ( /\ NewCalls # <<>>
                       /\ HasTok(aprs_message, Alnum4)
                       /\ NewCalls[1] = [ fn |-> "validate_icao",
                                          arg |-> FirstTok(aprs_message, Alnum4),
                                          ok |-> FALSE, by |-> "metar" ]
                       /\ HasTok(aprs_message, Alnum3) ) =>
                         /\ Len(NewCalls) >= 2
                         /\ NewCalls[2].fn = "validate_iata"
                         /\ NewCalls[2].arg = FirstTok(aprs_message, Alnum3)
        /\ "metar" \in Range(errors) =>
             /\ invoked' = invoked
             /\ calls' = calls
             /\ err'
             /\ pc = "return" =>
                  /\ ~success'
                  /\ rp.human_readable_message[1] \in
                         { "Cannot locate airport ICAO code",
                           "Cannot locate airport IATA code" }
        /\ (pc = "wx" /\ ~found_my_duty_roster /\ ~err) =>
             invoked' = Append(invoked, "wx")
      ]_vars

\* C24 without the message that the parse returns: the error, the halt of
\* the chain and success = false.
C24_ExplicitCodeFailureHalts ==
    [][ /\ (pc = "metar" /\ ~found_my_duty_roster /\ ~err) =>
             /\ invoked' = Append(invoked, "metar")
             /\ QualifiedCode(aprs_message) =>
                  /\ Len(NewCalls) = 1
                  /\ err' = ~NewCalls[1].ok
                  /\ found_my_duty_roster' = NewCalls[1].ok
                  /\ ~NewCalls[1].ok =>
                       /\ errors' = Append(errors, "metar")
                       /\ rp'.human_readable_message[1] \in
                              { "Cannot locate airport ICAO code",
                                "Cannot locate airport IATA code" }
             /\ ~QualifiedCode(aprs_message) =>
                  /\ ~err' /\ errors' = errors
                  /\ claimers' = claimers =>
                       /\ aprs_message' = aprs_message
                       /\ rp' = rp
        /\ "metar" \in Range(errors) =>
             /\ invoked' = invoked
             /\ calls' = calls
             /\ err'
             /\ pc = "return" => ~success'
      ]_vars

\* A finished run for "tomorrow icao eddf ," with EDDF not found: the METAR
\* rule made the one call and set the error, the weather rule was not
\* invoked, and the message returned is the one of an unknown command,
\* which the test for left-over text has put in place of the rule's.
C24_Witness ==
    /\ Done
    /\ msg_in = <<"tomorrow", "icao", "eddf", ",">>
    /\ Len(calls) = 1 /\ calls[1].fn = "validate_icao" /\ ~calls[1].ok
    /\ errors = <<"metar", "validate">>
    /\ invoked[Len(invoked)] = "metar"
    /\ aprs_message = <<",">>
    /\ rp.human_readable_message = <<errmsg_invalid_command>>
    /\ ~success

\* C25: when the text holds a comma or a semicolon as the METAR rule runs,
\* the rule validates no code that stands without a keyword: it calls
\* validate_iata not at all and validate_icao only for the airport that
\* get_nearest_icao has just returned, and it claims only through the bare
\* keyword metar or taf.  Without such a keyword the text, the fields and
\* the flags are as before and the weather rule is the next to act.
C25_SeparatorSkipsBareCodes ==
    [][ ( /\ pc = "metar" /\ ~found_my_duty_roster /\ ~err
          /\ \E k \in DOMAIN aprs_message :
                 aprs_message[k] \in { ",", ";", "paris;", "paris,", "view,",
                                       "ca;", "12345;" }
          /\ ~QualifiedCode(aprs_message) ) =>
            /\ \A i \in DOMAIN NewCalls :
                 /\ NewCalls[i].fn # "validate_iata"
                 /\ NewCalls[i].fn = "validate_icao" =>
                      /\ i > 1
                      /\ NewCalls[i - 1].fn = "get_nearest_icao"
                      /\ NewCalls[i - 1].ok
            /\ found_my_duty_roster' =>
                 \E w \in { "metar", "taf" } :
                     /\ HasTok(aprs_message, {w})
                     /\ aprs_message' = SubToks(aprs_message, {w})
            /\ ~HasTok(aprs_message, { "metar", "taf" }) =>
                 /\ NewCalls = <<>>
                 /\ aprs_message' = aprs_message
                 /\ rp' = rp
                 /\ ~found_my_duty_roster' /\ ~err'
                 /\ pc' = "wx"
      ]_vars

\* "eddf ," has passed the METAR rule: no call was made, the text is whole
\* and the weather rule is the next to act.
C25_Witness ==
    /\ pc = "wx"
    /\ msg_in = <<"eddf", ",">>
    /\ aprs_message = <<"eddf", ",">>
    /\ invoked # <<>> /\ invoked[Len(invoked)] = "metar"
    /\ calls = <<>>
    /\ ~found_my_duty_roster /\ ~err

\* C26: a branch of the weather rule that has matched ends either with
\* what = wx and success or with an error of the rule and success = false,
\* and it ends with the error whenever one of its forward or reverse
\* geocoding calls has failed.
C26_GeocodingFailureIsError ==
    Done =>
      /\ ("wx" \in Range(claimers) \/ "wx" \in Range(errors)) =>
           \/ success /\ rp.what = "wx" /\ "wx" \notin Range(errors)
           \/ ~success /\ "wx" \in Range(errors)
      /\ (\E i \in FailedCallsBy("wx") :
              calls[i].fn \in { "get_geocode_geopy_data",
                                "get_reverse_geopy_data" }) =>
           ~success /\ "wx" \in Range(errors)

\* A finished run for "12345": the zip code was geocoded, the reverse
\* geocoding of its position failed, and the rule claimed with what = wx
\* and the message of the zip code; the parse succeeded.
C26_Witness ==
    /\ Done
    /\ msg_in = <<"12345">>
    /\ claimers = <<"wx">> /\ errors = <<>>
    /\ Len(calls) = 2
    /\ calls[1].fn = "get_geocode_geopy_data" /\ calls[1].ok
    /\ calls[2].fn = "get_reverse_geopy_data" /\ ~calls[2].ok
    /\ rp.what = "wx"
    /\ success

C30_SenderLookupNeedsWhen ==
    Done =>
      ( (CallsBy("sender_lookup") # {} \/ "sender_lookup" \in Range(claimers))
          => \E k \in DOMAIN msg_in, i \in DOMAIN C23_Alternatives :
                 msg_in[k] \in C23_Alternatives[i] )

\* A finished run for "night": the defaults set when to today, the sender's
\* position was looked up and the command became a weather request.
C30_Witness ==
    /\ Done
    /\ msg_in = <<"night">>
    /\ claimers = <<"sender_lookup">>
    /\ calls # <<>>
    /\ calls[1].fn = "get_position_on_aprsfi" /\ calls[1].by = "sender_lookup"
    /\ rp.what = "wx" /\ rp.when = "today" /\ rp.when_daytime = "night"
    /\ success

\* C29: from the step in which a rule handler has reported a match together
\* with an error, no rule is invoked and no collaborator is called, the
\* defaults of when and when_daytime are not applied (both fields, the
\* offsets and the two flags stay as the extractors left them), the
\* sender's position is not looked up, and the parse returns
\* success = false.
C29_MatchWithErrorIsErrored ==
    [][ /\ (pc \in Range(RuleOrder)
                /\ claimers' # claimers /\ errors' # errors) =>
            /\ found_my_duty_roster' /\ err'
            /\ claimers' = <<pc>>
        /\ (claimers # <<>> /\ errors # <<>> /\ errors[1] = claimers[1]) =>
            /\ err'
            /\ invoked' = invoked
            /\ calls' = calls
            /\ claimers' = claimers
            /\ rp'.when = rp.when
            /\ rp'.when_daytime = rp.when_daytime
            /\ rp'.date_offset = rp.date_offset
            /\ rp'.hour_offset = rp.hour_offset
            /\ rp'.what = rp.what
            /\ found_when' = found_when
            /\ found_when_daytime' = found_when_daytime
            /\ pc = "return" => ~success'
      ]_vars

\* A finished run for "whereami" with the sender's position not found: the
\* rule claimed and raised the error, when and when_daytime were left
\* unset, no later call was made and the parse failed.
C29_Witness ==
    /\ Done
    /\ msg_in = <<"whereami">>
    /\ claimers = <<"whereami">> /\ errors = <<"whereami">>
    /\ invoked[Len(invoked)] = "whereami"
    /\ calls # <<>> /\ \A i \in DOMAIN calls : ~calls[i].ok /\ calls[i].by = "whereami"
    /\ rp.when = None /\ rp.when_daytime = None /\ rp.date_offset = -1
    /\ ~found_when /\ ~found_when_daytime
    /\ ~success

PositionLookups(cl) ==
    LET IsLookup(c) == c.fn = "get_position_on_aprsfi"
    IN  SelectSeq(cl, IsLookup)

\* C31: in the final implicit sender lookup the position collaborator is
\* called first with the sender's full callsign; a second call, with the
\* SSID stripped, is made only if the first call failed and the callsign has
\* an SSID; no call follows a successful one, so at most two position
\* lookups occur, and the claim flag is set only after a successful lookup.
C31_SenderLookupOrder ==
    [][ pc = "sender_lookup" =>
          LET P == PositionLookups(NewCalls)
          IN  /\ Len(P) <= 2
              /\ Len(P) >= 1 => P[1].arg = users_callsign
              /\ Len(P) = 2 =>
                    /\ ~P[1].ok
                    /\ users_callsign = "DF1JSL-1"
                    /\ P[2].arg = "DF1JSL"
              /\ \A k \in 1..Len(NewCalls) :
                    ( /\ NewCalls[k].fn = "get_position_on_aprsfi"
                      /\ NewCalls[k].ok ) =>
                        \A j \in (k + 1)..Len(NewCalls) :
                            NewCalls[j].fn # "get_position_on_aprsfi"
              /\ (~found_my_duty_roster /\ found_my_duty_roster') =>
                    /\ Len(P) >= 1
                    /\ P[Len(P)].ok ]_vars

\* 'tomorrow' from DF1JSL-1: the lookup of DF1JSL-1 has failed, the one of
\* DF1JSL has succeeded and the sender lookup has claimed the text.
C31_Witness ==
    /\ Done
    /\ msg_in = <<"tomorrow">>
    /\ users_callsign = "DF1JSL-1"
    /\ Len(calls) = 3
    /\ calls[1].fn = "get_position_on_aprsfi" /\ calls[1].arg = "DF1JSL-1"
    /\ ~calls[1].ok
    /\ calls[2].fn = "get_position_on_aprsfi" /\ calls[2].arg = "DF1JSL"
    /\ calls[2].ok
    /\ claimers = <<"sender_lookup">>
    /\ success

\* C32: in every result with success=true, icao is set if and only if what
\* is metar or taf: a request that was downgraded to wx because the airport
\* is not METAR-capable carries no ICAO code, and a claimed metar or taf
\* request always carries the ICAO code of a validated airport.
C32_IcaoIffMetarOrTaf ==
    (Done /\ success) =>
        (rp.icao # None <=> rp.what \in { "metar", "taf" })

\* 'icao eddf' with an airport that is found but reports no METAR: the
\* request is downgraded to wx and still carries the code.
C32_Witness ==
    /\ Done
    /\ success
    /\ msg_in = <<"icao", "eddf">>
    /\ claimers = <<"metar">>
    /\ Len(calls) = 1
    /\ calls[1].fn = "validate_icao" /\ calls[1].ok
    /\ rp.what = "wx"
    /\ rp.icao = "EDDF"

\* The twelve sub-branches of the weather rule in the order of C33: whether
\* the pattern of the sub-branch matches the text m, the text without its
\* matches, and the collaborators the sub-branch calls.
C33_Branches(m) ==
    LET geo == { "validate_country", "get_geocode_geopy_data" }
        zip == geo \cup { "get_reverse_geopy_data" }
        cs == { "get_position_on_aprsfi", "get_reverse_geopy_data" }
        coords == LatLonTokens \cup BadLatLonTokens
    IN  << [ hit |-> HasWxCity(m, 1), rest |-> SubWxCity(m, 1), fns |-> geo ],
           [ hit |-> HasWxCity(m, 2), rest |-> SubWxCity(m, 2), fns |-> geo ],
           [ hit |-> HasWxCity(m, 3), rest |-> SubWxCity(m, 3), fns |-> geo ],
           [ hit |-> HasZip(m, 1), rest |-> SubZip(m, 1), fns |-> zip ],
           [ hit |-> \E i \in DOMAIN m :
                         KwWordInAt(m, { "zip" }, FiveDigits, i),
             rest |-> SubKwWordIn(m, { "zip" }, FiveDigits), fns |-> zip ],
           [ hit |-> HasZip(m, 3), rest |-> SubZip(m, 3), fns |-> zip ],
           [ hit |-> HasWord(m, FiveDigits), rest |-> SubWords(m, FiveDigits),
             fns |-> zip \ { "validate_country" } ],
           [ hit |-> \E i \in DOMAIN m :
                         KwWordInAt(m, GridWords, Locators, i),
             rest |-> SubKwWordIn(m, GridWords, Locators), fns |-> {} ],
           [ hit |-> HasWord(m, Locators), rest |-> SubWords(m, Locators),
             fns |-> {} ],
           [ hit |-> HasTok(m, coords),
             rest |-> IF HasTok(m, coords)
                         /\ FirstTok(m, coords) \in BadLatLonTokens
                      THEN m ELSE SubToks(m, coords),
             fns |-> { "get_reverse_geopy_data" } ],
           [ hit |-> HasTok(m, WxCallsignsWithSsid),
             rest |-> SubToks(m, WxCallsignsWithSsid), fns |-> cs ],
           [ hit |-> HasWord(m, CallsignsNoSsid),
             rest |-> SubWords(m, CallsignsNoSsid), fns |-> cs ] >>

\* C33: in the weather fallback rule at most one sub-branch fires, chosen in
\* the fixed order 'city, state; country', 'city, state', 'city; country',
\* qualified international zip, qualified 5-digit zip, unqualified zip with
\* country, bare 5-digit zip, qualified grid locator, bare grid locator,
\* lat/lon pair, callsign with SSID, callsign without SSID.  When the rule
\* runs, the first sub-branch of this order whose pattern matches the text
\* is the only one that acts: the rule matches or raises an error, the text
\* it leaves is the text without the matches of that pattern alone, and
\* only the collaborators of that sub-branch are called; when no pattern
\* matches, the rule does nothing.
C33_FirstSubBranchOnly ==
    [][ (pc = "wx" /\ ChainOpen(found_my_duty_roster, err)) =>
          LET B == C33_Branches(aprs_message)
              hits == { b \in DOMAIN B : B[b].hit }
          IN  IF hits = {}
              THEN /\ aprs_message' = aprs_message
                   /\ NewCalls = <<>>
                   /\ ~found_my_duty_roster'
                   /\ ~err'
              ELSE LET b == CHOOSE x \in hits : \A y \in hits : x <= y
                   IN  /\ aprs_message' = B[b].rest
                       /\ \A k \in DOMAIN NewCalls : NewCalls[k].fn \in B[b].fns
                       /\ found_my_duty_roster' \/ err' ]_vars

\* '12345 df1abc': the text holds a five-digit code and a callsign; the code
\* is geocoded, the callsign is left in the text and never looked up.
C33_Witness ==
    /\ Done
    /\ msg_in = <<"12345", "df1abc">>
    /\ claimers = <<"wx">>
    /\ aprs_message = <<"df1abc">>
    /\ rp.zipcode = <<"12345">>
    /\ Len(calls) = 2
    /\ calls[1].fn = "get_geocode_geopy_data"
    /\ calls[2].fn = "get_reverse_geopy_data"
    /\ success

\* C34: the OSM category rule walks the configured category list in order
\* and, for each category, tries 'osm <category>' before the bare category
\* word.  When the rule runs on a text that holds categories, the first of
\* them in the order of the list is the one taken: osm_special_phrase is
\* that category and what is osm_special_phrase, the text loses the matches
\* of 'osm <category>' if there is one and else those of the bare word, and
\* nothing of a later category; exactly one position lookup is made, of the
\* sender, and its failure is an error.  When the text holds no category,
\* the rule makes no lookup and changes nothing.
C34_FirstCategoryWins ==
    [][ (pc = "osm_category" /\ ChainOpen(found_my_duty_roster, err)) =>
          LET C == mpad_config.osm_supported_keyword_categories
              m == aprs_message
              hits == { i \in DOMAIN C : \E k \in DOMAIN m : m[k] = C[i] }
          IN  IF hits = {}
              THEN /\ NewCalls = <<>>
                   /\ aprs_message' = m
                   /\ rp' = rp
                   /\ ~found_my_duty_roster'
                   /\ ~err'
              ELSE LET c == C[CHOOSE i \in hits : \A j \in hits : i <= j]
                       qualified == \E k \in 1..(Len(m) - 1) :
                                        m[k] = "osm" /\ m[k + 1] = c
                   IN  /\ rp'.osm_special_phrase = c
                       /\ rp'.what = "osm_special_phrase"
                       /\ found_my_duty_roster'
                       /\ Len(NewCalls) = 1
                       /\ NewCalls[1].fn = "get_position_on_aprsfi"
                       /\ NewCalls[1].arg = users_callsign
                       /\ err' = ~NewCalls[1].ok
                       /\ aprs_message' = IF qualified
                                          THEN SubPat(m, << {"osm"}, {c} >>)
                                          ELSE SubToks(m, {c}) ]_vars

\* 'police osm fuel': fuel is the first category of the list, so it is the
\* one taken although police comes first in the text; police stays in the
\* text and the one lookup is that of the sender.
C34_Witness ==
    /\ Done
    /\ msg_in = <<"police", "osm", "fuel">>
    /\ claimers = <<"osm_category">>
    /\ rp.osm_special_phrase = "fuel"
    /\ rp.what = "osm_special_phrase"
    /\ aprs_message = <<"police">>
    /\ Len(calls) = 1
    /\ calls[1].fn = "get_position_on_aprsfi" /\ calls[1].ok
    /\ success

\* C35: at return, when is 'hour' if and only if hour_offset is in 1..47,
\* and then date_offset is -1; in every other case hour_offset is -1, and
\* whenever success is true and when is not 'hour', date_offset is in 0..7.
C35_OffsetsAgreeWithWhen ==
    Done =>
        /\ rp.when = "hour" <=> rp.hour_offset \in 1..47
        /\ rp.when = "hour" => rp.date_offset = -1
        /\ rp.when # "hour" => rp.hour_offset = -1
        /\ (success /\ rp.when # "hour") => rp.date_offset \in 0..7

\* '47h': an hourly forecast for the largest number of hours.
C35_Witness ==
    /\ Done
    /\ msg_in = <<"47h">>
    /\ rp.when = "hour"
    /\ rp.hour_offset = 47
    /\ rp.date_offset = -1
    /\ success

\* C36: for a paging command 'dapnet|dapnethp <callsign> <body>' the
\* resulting dapnet_message is the free-text body the user sent after the
\* target callsign: no word of the body is removed by the modifier or
\* temporal extractors that run before the rule, and no part of the body is
\* left behind in the remaining text.
C36_DapnetBodyIsKept ==
    ( /\ Done
      /\ Len(msg_in) >= 3
      /\ msg_in[1] \in { "dapnet", "dapnethp" }
      /\ msg_in[2] \in { "df1abc-1", "df1abc" }
      /\ \A k \in 3..Len(msg_in) : msg_in[k] \in { "xy", "today", "metric" } ) =>
        /\ rp.what = msg_in[1]
        /\ rp.message_callsign = Upper(msg_in[2])
        /\ rp.dapnet_message = SubSeq(msg_in, 3, Len(msg_in))
        /\ aprs_message = <<>>

\* 'dapnet df1abc-1 xy today': parse_when has taken 'today' out of the text
\* before the paging rule runs, and the message to page is 'xy'.
C36_Witness ==
    /\ Done
    /\ msg_in = <<"dapnet", "df1abc-1", "xy", "today">>
    /\ claimers = <<"dapnet">>
    /\ rp.what = "dapnet"
    /\ rp.message_callsign = "DF1ABC-1"
    /\ rp.dapnet_message = <<"xy">>
    /\ rp.when = "today"
    /\ found_when
    /\ success

\* C37: whenever the returned success flag is false, human_readable_message
\* is set to a non-empty error text; and a message that a rule has supplied
\* with its error is not replaced by a later step, except by the check for
\* text left over beside a date or a time of day.
C37_FailureHasMessage ==
    [][ /\ (pc' = "done" /\ ~success') => MsgTruthy(rp'.human_readable_message)
        /\ ( /\ err
             /\ pc \notin Range(RuleOrder)
             /\ MsgTruthy(rp.human_readable_message)
             /\ rp'.human_readable_message # rp.human_readable_message ) =>
                /\ pc = "validate"
                /\ GarbageLeft(rp, aprs_message)
                /\ rp'.human_readable_message = <<errmsg_invalid_command>> ]_vars

\* 'icao eddf' with an airport that cannot be found: the parse fails and
\* returns the message of the airport rule, which the validator has left as
\* it was.
C37_Witness ==
    /\ Done
    /\ ~success
    /\ msg_in = <<"icao", "eddf">>
    /\ errors = <<"metar", "validate">>
    /\ rp.human_readable_message = <<"Cannot locate airport ICAO code", None>>

\* C38: once a rule has claimed the message without an error, text that is
\* still left in the remaining buffer never turns the result into a failure:
\* the validator, reached with a command and no error, sets no error and
\* leaves the result and the remaining text as they are, and no finished run
\* in which a rule has claimed the message has the validator as its first
\* error.
C38_LeftoverNeverFailsClaimed ==
    [][ /\ ( /\ pc = "validate"
             /\ ~err
             /\ claimers # <<>> \/ Truthy(rp.what) ) =>
                /\ Truthy(rp.what)
                /\ ~err'
                /\ rp' = rp
                /\ aprs_message' = aprs_message
                /\ errors' = errors
        /\ (pc' = "done" /\ claimers' # <<>> /\ errors' # <<>>) =>
                Head(errors') # "validate" ]_vars

\* 'tomorrow fuel xy': the category rule claims the message, 'xy' is left in
\* the remaining text beside a date, and the parse succeeds.
C38_Witness ==
    /\ Done
    /\ success
    /\ msg_in = <<"tomorrow", "fuel", "xy">>
    /\ claimers = <<"osm_category">>
    /\ aprs_message = <<"xy">>
    /\ rp.when = "tomorrow"
    /\ errors = <<>>

(***************************************************************************)
(* make_pretty_aprs_messages of utility_modules.py on its own.  A string   *)
(* is the sequence of its characters.                                      *)
(***************************************************************************)

\* Lines 488-511: a German special character becomes two letters; every
\* other character of the messages is ASCII and is kept by unidecode.
RECURSIVE convert_text_to_plain_ascii(_)
convert_text_to_plain_ascii(message_string) ==
    IF message_string = <<>> THEN <<>>
    ELSE (IF Head(message_string) = "a-umlaut" THEN <<"a", "e">>
          ELSE <<Head(message_string)>>)
         \o convert_text_to_plain_ascii(Tail(message_string))

\* str.split() of line 139: the words between runs of blanks.
RECURSIVE SplitWords(_)
SplitWords(s) ==
    IF s = <<>> THEN <<>>
    ELSE IF Head(s) = " " THEN SplitWords(Tail(s))
    ELSE LET blanks == { i \in 1..Len(s) : s[i] = " " }
             n == IF blanks = {} THEN Len(s) + 1
                  ELSE CHOOSE i \in blanks : \A j \in blanks : i <= j
         IN  <<SubSeq(s, 1, n - 1)>> \o SplitWords(SubSeq(s, n, Len(s)))

\* Lines 181-206: chunks of max_len characters, the last one shorter.
split_string_to_string_list(message_string, max_len) ==
    [ k \in 1..((Len(message_string) + max_len - 1) \div max_len) |->
        SubSeq(message_string, (k - 1) * max_len + 1,
               IF k * max_len < Len(message_string) THEN k * max_len
               ELSE Len(message_string)) ]

RECURSIVE make_pretty_aprs_messages(_, _, _, _, _, _, _)
RECURSIVE AddSplitData(_, _, _, _, _, _, _)

\* Lines 140-160: the loop over the words of a message that is too long.
AddSplitData(split_data, destination_list, max_len, separator_char, add_sep, force_outgoing_unicode_messages, mpad_enforce_unicode_messages) ==
    IF split_data = <<>> THEN destination_list
    ELSE LET split == Head(split_data)
         IN  AddSplitData(
                 Tail(split_data),
                 IF Len(split) < max_len
                 THEN make_pretty_aprs_messages(
                          split, destination_list, max_len, separator_char,
                          add_sep, force_outgoing_unicode_messages,
                          mpad_enforce_unicode_messages)
                 ELSE destination_list \o
                          split_string_to_string_list(split, max_len),
                 max_len, separator_char, add_sep,
                 force_outgoing_unicode_messages,
                 mpad_enforce_unicode_messages)

\* Lines 40-178.  The last parameter is the setting of mpad_config that the
\* function reads at line 128.
make_pretty_aprs_messages(message_to_add, destination_list, max_len, separator_char, add_sep, force_outgoing_unicode_messages, mpad_enforce_unicode_messages) ==
    LET permitted == SelectSeq(message_to_add,
                               LAMBDA ch : ch \notin { "{", "}", "|", "~" })
        message == IF ~mpad_enforce_unicode_messages
                      /\ ~force_outgoing_unicode_messages
                   THEN convert_text_to_plain_ascii(permitted)
                   ELSE permitted
        n == Len(destination_list)
    IN  IF Len(message) > max_len
        THEN AddSplitData(SplitWords(message), destination_list, max_len,
                          separator_char, add_sep,
                          force_outgoing_unicode_messages,
                          mpad_enforce_unicode_messages)
        ELSE IF n > 0
        THEN LET string_from_list == destination_list[n]
                 delimiter == IF Len(string_from_list) > 0 /\ add_sep
                              THEN separator_char ELSE <<>>
             IN  IF Len(string_from_list) + Len(message) + 1 <= max_len
                 THEN [destination_list EXCEPT
                          ![n] = string_from_list \o delimiter \o message]
                 ELSE Append(destination_list, message)
        ELSE Append(destination_list, message)

\* One call of the function.  The message is any string of up to PrettyLen
\* characters over a letter, the blank, a character that APRS does not
\* permit and a German special character (the letter a with two dots,
\* written by its name); the list has up to two lines of at most max_len
\* letters; the line length is 1..PrettyLen; the separator is the default
\* or a comma and a blank; the flags have any setting.
InitPretty ==
    /\ pc = "pretty"
    /\ \E message_to_add \in Texts({ "a", " ", "|", "a-umlaut" }, PrettyLen),
          max_len \in 1..PrettyLen,
          separator_char \in { <<" ">>, <<",", " ">> },
          add_sep \in BOOLEAN,
          force_outgoing_unicode_messages \in BOOLEAN,
          mpad_enforce_unicode_messages \in BOOLEAN :
        \E destination_list \in Texts(Texts({ "a" }, max_len), 2) :
            rp = [ message_to_add |-> message_to_add,
                   destination_list |-> destination_list,
                   max_len |-> max_len,
                   separator_char |-> separator_char,
                   add_sep |-> add_sep,
                   force_outgoing_unicode_messages |->
                       force_outgoing_unicode_messages,
                   mpad_enforce_unicode_messages |->
                       mpad_enforce_unicode_messages,
                   returned |-> <<>> ]
    /\ msg_in = <<>>
    /\ aprs_message = <<>>
    /\ users_callsign = None
    /\ found_my_duty_roster = FALSE
    /\ err = FALSE
    /\ found_when = FALSE
    /\ found_when_daytime = FALSE
    /\ success = FALSE
    /\ calls = <<>>
    /\ invoked = <<>>
    /\ claimers = <<>>
    /\ errors = <<>>
    /\ other = NoParse

MakePretty ==
    /\ pc = "pretty"
    /\ pc' = "done"
    /\ rp' = [rp EXCEPT !.returned =
                 make_pretty_aprs_messages(
                     rp.message_to_add, rp.destination_list, rp.max_len,
                     rp.separator_char, rp.add_sep,
                     rp.force_outgoing_unicode_messages,
                     rp.mpad_enforce_unicode_messages)]
    /\ UNCHANGED <<aprs_message, users_callsign, found_my_duty_roster, err,
                   found_when, found_when_daytime, success, msg_in, calls,
                   invoked, claimers, errors, other>>

SpecPretty == InitPretty /\ [][MakePretty]_vars

\* C39: make_pretty_aprs_messages never produces a list element longer than
\* max_len when the elements of destination_list are at most max_len long;
\* and a message that fits is either joined to the last element, the joined
\* element being at most max_len long, or starts a new element, the last
\* element, the separator and the message together being longer than
\* max_len.
C39_NoElementLongerThanMaxLen ==
    Done =>
        LET dl == rp.destination_list
            n == Len(dl)
            permitted == SelectSeq(rp.message_to_add,
                                   LAMBDA ch : ch \notin { "{", "}", "|", "~" })
            message == IF ~rp.mpad_enforce_unicode_messages
                          /\ ~rp.force_outgoing_unicode_messages
                       THEN convert_text_to_plain_ascii(permitted)
                       ELSE permitted
        IN  /\ \A i \in DOMAIN rp.returned :
                   Len(rp.returned[i]) <= rp.max_len
            /\ (Len(message) <= rp.max_len /\ n > 0) =>
                   LET joined == dl[n] \o (IF Len(dl[n]) > 0 /\ rp.add_sep
                                           THEN rp.separator_char ELSE <<>>)
                                       \o message
                   IN  \/ /\ rp.returned = [dl EXCEPT ![n] = joined]
                          /\ Len(joined) <= rp.max_len
                       \/ /\ rp.returned = Append(dl, message)
                          /\ Len(dl[n]) + Len(rp.separator_char) + Len(message)
                                 > rp.max_len

\* The message 'a' added to the list ['a'] with a line length of 3 and the
\* separator ', ': the one element of the returned list is 'a, a', of four
\* characters.
C39_Witness ==
    /\ Done
    /\ rp.message_to_add = <<"a">>
    /\ rp.destination_list = << <<"a">> >>
    /\ rp.max_len = 3
    /\ rp.separator_char = <<",", " ">>
    /\ rp.add_sep
    /\ rp.returned = << <<"a", ",", " ", "a">> >>

====
